---- MODULE Spec2Model ----
(***************************************************************************)
(* Verification model of the code review assistant:                        *)
(*   - git/diff_parser.py      GitDiffParser (parse_diff, _parse_file_diff, *)
(*                             _parse_hunk, get_changed_lines_for_file)     *)
(*   - git/focused_review.py   FocusedReviewAnalyzer (analyze_diff)         *)
(*   - analyzers/core_analyzer.py  CoreAnalyzer.analyze_file                *)
(*   - config/rule_engine.py   RuleEngine (execute_rules_for_file)          *)
(*                                                                         *)
(* A diff is a sequence of lines.  A line is represented by what the parser *)
(* can observe of it: the prefix tests (startswith), the regular            *)
(* expressions of the headers, its first character, and the numbers of a    *)
(* hunk header.  The rest of the text is not read by the parser.            *)
(***************************************************************************)
EXTENDS Integers, Sequences, FiniteSets, TLC

\* ------------------------------------------------------------------ bounds
MaxLen == 5          \* lines of a diff text
MaxStart == 1        \* largest start number of a hunk header
MaxCount == 2        \* largest explicit count of a hunk header
MaxFocusLen == 4     \* lines of a diff text under focused review
MaxFindings == 1     \* findings of the checkers in one file
MaxFindingLine == 2  \* largest line of a finding
MaxCalls == 2        \* calls of execute_rules_for_file on one engine
SmallMaxIssues == 2  \* a max_issues_per_run that a run can reach
MaxUpdates == 1      \* calls of ConfigManager.update_config
MaxFunctions == 2    \* function definitions in a file
MaxEvents == 2       \* names and parameters met in a file
MaxDiffLen == 6      \* lines of a diff text given to both parsers
MaxFiles == 2        \* files given to CoreAnalyzer.analyze

\* ------------------------------------------------------- program constants
\* Optional[int] = None
None == -1
\* regex group (\d+)? that did not take part in the match
NoCount == -1
\* sys.get_int_max_str_digits(): int() of a longer digit string raises
IntMaxStrDigits == 4300

\* ChangeType (diff_parser.py:18-23)
ADDED == "added"
REMOVED == "removed"
MODIFIED == "modified"
RENAMED == "renamed"

\* --------------------------------------------------------------- the lines
\* k: the kind of line, digits: the length of the longest number of a hunk
\* header, os/oc/ns/nc: the numbers of a hunk header (NoCount: omitted).
Tok(kind) ==
    [k |-> kind, path |-> "", digits |-> 0,
     os |-> 0, oc |-> NoCount, ns |-> 0, nc |-> NoCount]

\* 'diff --git a/<p> b/<p>'
DiffGit(p) == [Tok("diffgit") EXCEPT !.path = p]
\* a line that starts with 'diff --git' and has no ' a/.. b/..' part
DiffGitNoPath == Tok("diffgit_nopath")
\* 'deleted file mode 100644'
DelFile == Tok("delfile")
\* 'new file mode 100644'
NewFile == Tok("newfile")
\* 'rename from <p>'
RenameFrom == Tok("rename")
\* '--- a/<p>', '--- /dev/null', '+++ b/<p>', '+++ /dev/null'
OldPath(p) == [Tok("oldpath") EXCEPT !.path = p]
OldNull == Tok("oldnull")
NewPath(p) == [Tok("newpath") EXCEPT !.path = p]
NewNull == Tok("newnull")
\* 'Binary files a/<p> and b/<p> differ'
Binary == Tok("binary")
\* '@@ -os[,oc] +ns[,nc] @@'
Hdr(a, b, c, d) ==
    [Tok("hdr") EXCEPT !.digits = 1, !.os = a, !.oc = b, !.ns = c, !.nc = d]
\* '@@ -000...001 +1 @@' with 5000 digits: matches the header expression
HdrHuge == [Tok("hdr") EXCEPT !.digits = IntMaxStrDigits + 700, !.os = 1, !.ns = 1]
\* a line that starts with '@@' and does not match the header expression
HdrBad == Tok("hdrbad")
\* '+text', '-text', ' text', '', '\ No newline at end of file', 'text'
Plus == Tok("plus")
Minus == Tok("minus")
Space == Tok("space")
Empty == Tok("empty")
NoNewline == Tok("nonewline")
Text == Tok("text")

\* str.startswith('diff --git')
StartsWithDiffGit(l) == l.k \in {"diffgit", "diffgit_nopath"}
\* str.startswith('@@')
StartsWithAt(l) == l.k \in {"hdr", "hdrbad"}
\* line[0] of a non-empty line
FirstChar(l) ==
    CASE l.k \in {"plus", "newpath", "newnull"} -> "+"
      [] l.k \in {"minus", "oldpath", "oldnull"} -> "-"
      [] l.k = "space" -> " "
      [] l.k = "nonewline" -> "\\"
      [] l.k \in {"hdr", "hdrbad"} -> "@"
      [] l.k = "binary" -> "B"
      [] OTHER -> "d"

\* ------------------------------------------------------------------- state
VARIABLES
    lines,      \* diff_text.split('\n')
    i,          \* the index into lines (1-based), shared by the three loops
    pc,         \* the position of the parser
    files,      \* parse_diff: files
    cur,        \* _parse_file_diff: old_path, new_path, change_type, hunks, is_binary
    hunk,       \* _parse_hunk: the header numbers, hunk_lines, old_line, new_line
    raised,     \* an exception left parse_diff
    fs,         \* the file system: directory -> content of the file a.py
    repo_path,  \* analyze_diff: repo_path
    fidx,       \* analyze_diff: the position of the loop over diff_result.files
    all_issues, \* analyze_diff: all_issues
    total_lines_reviewed,   \* analyze_diff: total_lines_reviewed
    last,       \* the locals of the latest call of _analyze_file_changes
    config,     \* RuleEngine.config: the ConfigSchema
    registry,   \* RuleEngine._rule_registry, in the order of registration
    behaviour,  \* what the registered rule functions do when called
    epc,        \* the position of execute_rules_for_file
    efile,      \* execute_rules_for_file: file_path
    eci,        \* the position of the loop over the checkers
    eri,        \* the position of the loop over the rules of a checker
    all_results,    \* execute_rules_for_file: all_results
    rules_executed, \* execute_rules_for_file: rules_executed
    executed,   \* the rule functions called by the latest call, in order
    result,     \* the list the latest call returned
    calls,      \* the calls of execute_rules_for_file so far
    run_findings,   \* the findings of all the calls of the run so far
    cfs,        \* the configuration files: name -> state and content
    env,        \* EnvironmentConfigProvider.get_environment_overrides()
    lpc,        \* the position of the user of ConfigManager
    loaded,     \* what load_config returned to ConfigManager
    merge_call, \* the latest call of ConfigParser.merge_configs
    messages,   \* the list ConfigManager.validate_config returned
    resolved,   \* what ConfigInheritance.resolve_extends returned
    updates,    \* the calls of ConfigManager.update_config so far
    outcome,    \* the top-level result of a run
    held,       \* the tree a caller got from get_config() or get_rule_engine()
    last_op,    \* the latest operation on the ConfigManager
    arg,        \* the argument of the function under study
    ret,        \* what it returned
    fpc         \* whether it has been called

parserVars == <<lines, i, pc, files, cur, hunk, raised>>
reviewVars == <<fs, repo_path, fidx, all_issues, total_lines_reviewed, last>>
engineVars == <<config, registry, behaviour, epc, efile, eci, eri, all_results,
                rules_executed, executed, result, calls, run_findings>>
loaderVars == <<cfs, env, lpc, loaded, merge_call, messages, resolved, updates,
               outcome>>
extraVars == <<held, last_op, arg, ret, fpc>>

NoPath == ""

\* the directories a path can resolve in: the working directory of the
\* process and the directory of the repository under review
Dirs == {"cwd", "repo"}
\* repo_path: None, a path that names the working directory, or the repository
NoRepoPath == "none"
RepoPaths == {NoRepoPath} \cup Dirs

\* The content of a file is represented by what the checkers find in it: the
\* lines of the findings, in the order the checkers report them.
Missing == [st |-> "missing", issues |-> <<>>]
EmptyFile == [st |-> "empty", issues |-> <<>>]
TextFile(ls) == [st |-> "text", issues |-> ls]

NoCall ==
    [called |-> FALSE, analysed |-> FALSE, file_content |-> Missing,
     read |-> Missing, added_lines |-> {}, removed_lines |-> {},
     checker_issues |-> <<>>, issues |-> <<>>]

NewCur ==
    [old_path |-> NoPath, new_path |-> NoPath, change_type |-> MODIFIED,
     hunks |-> <<>>, is_binary |-> FALSE]

NoHunk ==
    [old_start |-> 0, old_count |-> 0, new_start |-> 0, new_count |-> 0,
     lines |-> <<>>, context |-> 0, old_line |-> 0, new_line |-> 0]

Range(s) == {s[j] : j \in 1..Len(s)}

\* ------------------------------------------------------------ the parser
Line == lines[i]
InRange == i <= Len(lines)

\* int(hunk_match.group(n)) if hunk_match.group(n) else 1   (206, 208)
CountOf(g) == IF g = NoCount THEN 1 ELSE g

\* parse_diff, 89-99: a line that is no file header is passed over
ParseDiffScan ==
    /\ pc = "parse_diff"
    /\ InRange
    /\ ~StartsWithDiffGit(Line)
    /\ i' = i + 1
    /\ UNCHANGED <<extraVars, lines, pc, files, cur, hunk, raised, reviewVars, engineVars, loaderVars>>

\* parse_diff, 93-94 and _parse_file_diff, 113-128: the file header
ParseFileDiffEnter ==
    /\ pc = "parse_diff"
    /\ InRange
    /\ StartsWithDiffGit(Line)
    /\ cur' = IF Line.k = "diffgit"
                THEN [NewCur EXCEPT !.old_path = Line.path, !.new_path = Line.path]
                ELSE NewCur
    /\ i' = i + 1
    /\ pc' = "file_info"
    /\ UNCHANGED <<extraVars, lines, files, hunk, raised, reviewVars, engineVars, loaderVars>>

\* the effect of one line between the file header and the first hunk (132-155)
FileInfoLine(c, l) ==
    CASE l.k = "newfile" -> [c EXCEPT !.change_type = ADDED]
      [] l.k = "delfile" -> [c EXCEPT !.change_type = REMOVED]
      [] l.k = "rename" -> [c EXCEPT !.change_type = RENAMED]
      [] l.k = "oldpath" -> [c EXCEPT !.old_path = l.path]
      [] l.k = "oldnull" -> [c EXCEPT !.change_type = ADDED]
      [] l.k = "newpath" -> [c EXCEPT !.new_path = l.path]
      [] l.k = "newnull" -> [c EXCEPT !.change_type = REMOVED]
      [] l.k = "binary" -> [c EXCEPT !.is_binary = TRUE]
      [] OTHER -> c

\* _parse_file_diff, 131-157
ParseFileInfo ==
    /\ pc = "file_info"
    /\ InRange
    /\ ~StartsWithAt(Line)
    /\ ~StartsWithDiffGit(Line)
    /\ cur' = FileInfoLine(cur, Line)
    /\ i' = i + 1
    /\ UNCHANGED <<extraVars, lines, pc, files, hunk, raised, reviewVars, engineVars, loaderVars>>

\* _parse_file_diff, 131: the loop ends
ParseFileInfoEnd ==
    /\ pc = "file_info"
    /\ ~(InRange /\ ~StartsWithAt(Line) /\ ~StartsWithDiffGit(Line))
    /\ pc' = "hunks"
    /\ UNCHANGED <<extraVars, lines, i, files, cur, hunk, raised, reviewVars, engineVars, loaderVars>>

\* the hunk of a header line that matches (205-213)
HunkOfHeader(l, at) ==
    [old_start |-> l.os, old_count |-> CountOf(l.oc),
     new_start |-> l.ns, new_count |-> CountOf(l.nc),
     lines |-> <<>>, context |-> at,
     old_line |-> l.os, new_line |-> l.ns]

\* _parse_file_diff, 160-164 and _parse_hunk, 193-213: the hunk header.
\* A header that does not match gives (None, i + 1).  int() of a digit
\* string longer than the limit raises ValueError where the interpreter
\* enforces the limit (3.11 and the patched 3.8-3.10), and converts
\* elsewhere.
ParseHunkHeader ==
    /\ pc = "hunks"
    /\ InRange
    /\ StartsWithAt(Line)
    /\ \/ /\ Line.k = "hdrbad"
          /\ i' = i + 1
          /\ UNCHANGED <<pc, hunk, raised>>
       \/ /\ Line.k = "hdr"
          /\ Line.digits <= IntMaxStrDigits
          /\ hunk' = HunkOfHeader(Line, i)
          /\ i' = i + 1
          /\ pc' = "hunk_body"
          /\ UNCHANGED raised
       \/ /\ Line.k = "hdr"
          /\ Line.digits > IntMaxStrDigits
          /\ \E enforced \in BOOLEAN :
                IF enforced
                THEN /\ raised' = TRUE
                     /\ pc' = "raised"
                     /\ UNCHANGED <<i, hunk>>
                ELSE /\ hunk' = HunkOfHeader(Line, i)
                     /\ i' = i + 1
                     /\ pc' = "hunk_body"
                     /\ UNCHANGED raised
    /\ UNCHANGED <<extraVars, lines, files, cur, reviewVars, engineVars, loaderVars>>

\* an Added line that also takes the old counter
AddedLineWithOld(h) ==
    [line_number |-> h.new_line, old_line_number |-> h.old_line,
     new_line_number |-> h.new_line, change_type |-> ADDED]

\* the DiffLine of one line of a hunk body (227-265)
AddedLine(h) ==
    [line_number |-> h.new_line, old_line_number |-> None,
     new_line_number |-> h.new_line, change_type |-> ADDED]
RemovedLine(h) ==
    [line_number |-> h.old_line, old_line_number |-> h.old_line,
     new_line_number |-> None, change_type |-> REMOVED]
ContextLine(h) ==
    [line_number |-> h.new_line, old_line_number |-> h.old_line,
     new_line_number |-> h.new_line, change_type |-> MODIFIED]

\* one pass of the loop of _parse_hunk over a line that does not end the hunk
\* (223-267)
HunkLine(h, l) ==
    IF l.k = "empty" THEN h
    ELSE IF FirstChar(l) = "+"
    THEN [h EXCEPT !.lines = Append(@, AddedLine(h)), !.new_line = @ + 1]
    ELSE IF FirstChar(l) = "-"
    THEN [h EXCEPT !.lines = Append(@, RemovedLine(h)), !.old_line = @ + 1]
    ELSE [h EXCEPT !.lines = Append(@, ContextLine(h)),
                   !.old_line = @ + 1, !.new_line = @ + 1]

\* _parse_hunk, 216-267
ParseHunkLine ==
    /\ pc = "hunk_body"
    /\ InRange
    /\ ~StartsWithAt(Line)
    /\ ~StartsWithDiffGit(Line)
    /\ hunk' = HunkLine(hunk, Line)
    /\ i' = i + 1
    /\ UNCHANGED <<extraVars, lines, pc, files, cur, raised, reviewVars, engineVars, loaderVars>>

\* the DiffHunk that _parse_hunk returns (269-276)
DiffHunk(h) ==
    [old_start |-> h.old_start, old_count |-> h.old_count,
     new_start |-> h.new_start, new_count |-> h.new_count,
     lines |-> h.lines, context |-> h.context]

\* _parse_hunk, 216-221 and 269-278, _parse_file_diff, 162-164
ParseHunkReturn ==
    /\ pc = "hunk_body"
    /\ ~(InRange /\ ~StartsWithAt(Line) /\ ~StartsWithDiffGit(Line))
    /\ cur' = [cur EXCEPT !.hunks = Append(@, DiffHunk(hunk))]
    /\ hunk' = NoHunk
    /\ pc' = "hunks"
    /\ UNCHANGED <<extraVars, lines, i, files, raised, reviewVars, engineVars, loaderVars>>

RECURSIVE CountKind(_, _)
\* len([line for line in hunk.lines if line.change_type == kind])
CountKind(ls, kind) ==
    IF ls = <<>> THEN 0
    ELSE (IF Head(ls).change_type = kind THEN 1 ELSE 0) + CountKind(Tail(ls), kind)

RECURSIVE SumKind(_, _)
\* sum(... for hunk in hunks)   (170-177)
SumKind(hs, kind) ==
    IF hs = <<>> THEN 0
    ELSE CountKind(Head(hs).lines, kind) + SumKind(Tail(hs), kind)

\* the FileDiff of _parse_file_diff (179-187)
FileDiff(c) ==
    [old_path |-> c.old_path, new_path |-> c.new_path,
     change_type |-> c.change_type, hunks |-> c.hunks,
     added_lines |-> SumKind(c.hunks, ADDED),
     removed_lines |-> SumKind(c.hunks, REMOVED),
     is_binary |-> c.is_binary]

\* _parse_file_diff, 160 and 166-189, parse_diff, 95-97
ParseFileDiffReturn ==
    /\ pc = "hunks"
    /\ ~(InRange /\ StartsWithAt(Line))
    /\ files' = IF cur.old_path = NoPath \/ cur.new_path = NoPath
                  THEN files
                  ELSE Append(files, FileDiff(cur))
    /\ cur' = NewCur
    /\ pc' = "parse_diff"
    /\ UNCHANGED <<extraVars, lines, i, hunk, raised, reviewVars, engineVars, loaderVars>>

\* parse_diff, 89 and 101-109
ParseDiffReturn ==
    /\ pc = "parse_diff"
    /\ ~InRange
    /\ pc' = "done"
    /\ UNCHANGED <<extraVars, lines, i, files, cur, hunk, raised, reviewVars, engineVars, loaderVars>>

ParseNext ==
    \/ ParseDiffScan
    \/ ParseFileDiffEnter
    \/ ParseFileInfo
    \/ ParseFileInfoEnd
    \/ ParseHunkHeader
    \/ ParseHunkLine
    \/ ParseHunkReturn
    \/ ParseFileDiffReturn
    \/ ParseDiffReturn

\* ------------------------------------------------------ the focused review
\* the truth value of an Optional[int]: None and 0 are false
Truthy(n) == n # None /\ n # 0

\* the DiffLines of all hunks of a file
LinesOfFile(fd) == UNION {Range(h.lines) : h \in Range(fd.hunks)}

\* GitDiffParser.get_changed_lines_for_file (280-300)
GetChangedLinesForFile(fd) ==
    [added |-> {l.new_line_number :
                  l \in {x \in LinesOfFile(fd) :
                           x.change_type = ADDED /\ Truthy(x.new_line_number)}},
     removed |-> {l.old_line_number :
                    l \in {x \in LinesOfFile(fd) :
                             /\ ~(x.change_type = ADDED /\ Truthy(x.new_line_number))
                             /\ x.change_type = REMOVED
                             /\ Truthy(x.old_line_number)}}]

\* FocusedReviewAnalyzer._get_file_content (176-189): the file at
\* repo_path / file_path, or at file_path when no repo_path is given; None
\* (Missing) when it does not exist
GetFileContent(rp) == fs[IF rp = NoRepoPath THEN "cwd" ELSE rp]

\* the findings the six checkers report on a content
\* (core_analyzer.py 101-106)
CheckerIssues(content) ==
    [j \in 1..Len(content.issues) |-> [type |-> "checker", line |-> content.issues[j]]]

\* CoreAnalyzer._create_error_result (239-253)
ErrorIssue == [type |-> "analysis_error", line |-> 1]

\* CoreAnalyzer.analyze_file(Path(new_path)) (60-116): the path is taken
\* relative to the working directory.  read_text of a missing file raises
\* FileNotFoundError, which _read_file_content does not catch (118-129) and
\* analyze_file turns into the error result.
AnalyzeFile ==
    LET content == fs["cwd"]
    IN [read |-> content,
        checker_issues |-> IF content.st = "text" THEN CheckerIssues(content) ELSE <<>>,
        issues |-> CASE content.st = "missing" -> <<ErrorIssue>>
                     [] content.st = "empty" -> <<>>
                     [] OTHER -> CheckerIssues(content)]

RECURSIVE FlatLines(_)
\* for hunk in file_diff.hunks: for diff_line in hunk.lines
FlatLines(hs) == IF hs = <<>> THEN <<>> ELSE Head(hs).lines \o FlatLines(Tail(hs))

\* FocusedReviewAnalyzer._find_line_context (226-233)
FindLineContext(fd, line_number) ==
    LET ls == FlatLines(fd.hunks)
        hits == {j \in 1..Len(ls) : ls[j].new_line_number = line_number}
    IN IF hits = {}
       THEN [change_type |-> MODIFIED, old_line |-> None]
       ELSE LET j == CHOOSE x \in hits : \A y \in hits : x <= y
            IN [change_type |-> ls[j].change_type, old_line |-> ls[j].old_line_number]

\* the FocusedIssue of a finding (147-158)
FocusedIssue(fd, issue) ==
    [file_path |-> fd.new_path,
     line_number |-> issue.line,
     old_line_number |-> FindLineContext(fd, issue.line).old_line,
     change_type |-> FindLineContext(fd, issue.line).change_type,
     issue_type |-> issue.type]

RECURSIVE FocusedIssues(_, _, _)
\* the loop over analysis_result.issues (141-159)
FocusedIssues(fd, issues, added_lines) ==
    IF issues = <<>> THEN <<>>
    ELSE (IF Head(issues).line \in added_lines
          THEN <<FocusedIssue(fd, Head(issues))>> ELSE <<>>)
         \o FocusedIssues(fd, Tail(issues), added_lines)

\* FocusedReviewAnalyzer._analyze_file_changes (108-174): the locals at its
\* return
AnalyzeFileChangesOf(fd) ==
    LET file_content == GetFileContent(repo_path)
        changed_lines == GetChangedLinesForFile(fd)
        analysis_result == AnalyzeFile
    IN IF fd.change_type = REMOVED
       THEN [NoCall EXCEPT !.called = TRUE]
       ELSE IF file_content.st \in {"missing", "empty"}
       THEN [NoCall EXCEPT !.called = TRUE, !.file_content = file_content]
       ELSE IF changed_lines.added = {}
       THEN [NoCall EXCEPT !.called = TRUE, !.file_content = file_content,
                           !.removed_lines = changed_lines.removed]
       ELSE [called |-> TRUE, analysed |-> TRUE,
             file_content |-> file_content,
             read |-> analysis_result.read,
             added_lines |-> changed_lines.added,
             removed_lines |-> changed_lines.removed,
             checker_issues |-> analysis_result.checker_issues,
             issues |-> FocusedIssues(fd, analysis_result.issues, changed_lines.added)]

\* analyze_diff, 73-76: a binary file is passed over
ReviewSkipBinary ==
    /\ pc = "done"
    /\ fidx >= 1
    /\ fidx <= Len(files)
    /\ files[fidx].is_binary
    /\ fidx' = fidx + 1
    /\ UNCHANGED <<extraVars, parserVars, fs, repo_path, all_issues, total_lines_reviewed, last,
                   engineVars, loaderVars>>

\* analyze_diff, 78-84 with _analyze_file_changes
AnalyzeFileChanges ==
    /\ pc = "done"
    /\ fidx >= 1
    /\ fidx <= Len(files)
    /\ ~files[fidx].is_binary
    /\ last' = AnalyzeFileChangesOf(files[fidx])
    /\ all_issues' = all_issues \o last'.issues
    /\ total_lines_reviewed' =
          total_lines_reviewed + (IF last'.analysed THEN Cardinality(last'.added_lines) ELSE 0)
    /\ fidx' = fidx + 1
    /\ UNCHANGED <<extraVars, parserVars, fs, repo_path, engineVars, loaderVars>>

\* analyze_diff, 86-106
AnalyzeDiffReturn ==
    /\ pc = "done"
    /\ fidx = Len(files) + 1
    /\ pc' = "reviewed"
    /\ UNCHANGED <<extraVars, lines, i, files, cur, hunk, raised, reviewVars, engineVars, loaderVars>>

ReviewNext ==
    \/ ParseNext
    \/ ReviewSkipBinary
    \/ AnalyzeFileChanges
    \/ AnalyzeDiffReturn

\* ---------------------------------------------------------- the rule engine
\* SeverityLevel (schema.py:13-18)
ERROR == "error"
WARNING == "warning"
SUGGESTION == "suggestion"
INFO == "info"
\* Optional[SeverityLevel] = None
NoSeverity == "none"

\* FileTypeConfig (schema.py:21-28)
PYTHON == "python"
JAVASCRIPT == "javascript"
TYPESCRIPT == "typescript"
JSON == "json"
YAML == "yaml"
MARKDOWN == "markdown"
\* Optional[FileTypeConfig] = None
NoFileType == "none"
\* RuleConfig.file_types: Optional[List[FileTypeConfig]] = None
NoFileTypes == <<"none">>

\* the files the engine is run on
EnginePaths == {"src/a.py", "tests/b.js", "README"}

\* Path.suffix.lower()
Suffix(path) ==
    CASE path = "src/a.py" -> ".py"
      [] path = "tests/b.js" -> ".js"
      [] OTHER -> ""

\* fnmatch.fnmatch(text, pattern) on the paths and patterns of the model
FnMatch(text, pattern) ==
    \/ pattern = "tests/*" /\ text = "tests/b.js"
    \/ pattern = "*.py" /\ text = "src/a.py"
    \/ pattern = "*"

\* bool(re.search(pattern, text)) on the paths and patterns of the model
ReSearch(text, pattern) ==
    \/ pattern = "^tests/" /\ text = "tests/b.js"
    \/ pattern = "\\.py$" /\ text = "src/a.py"

\* pattern in text
Contains(text, pattern) ==
    \/ pattern = "tests" /\ text = "tests/b.js"
    \/ pattern = "src" /\ text = "src/a.py"
    \/ pattern = text

\* RuleFilter._matches_pattern (80-92)
MatchesPattern(text, pattern, pattern_type) ==
    CASE pattern_type = "glob" -> FnMatch(text, pattern)
      [] pattern_type = "regex" -> ReSearch(text, pattern)
      [] pattern_type = "path" -> Contains(text, pattern)
      [] OTHER -> FALSE

\* RuleFilter.should_ignore_file (56-78)
ShouldIgnoreFile(cfg, path) ==
    \/ \E p \in Range(cfg.ignore_patterns) : MatchesPattern(path, p.pattern, p.type)
    \/ /\ cfg.include_patterns # <<>>
       /\ ~\E p \in Range(cfg.include_patterns) : MatchesPattern(path, p, "glob")

\* RuleFilter.get_file_type (94-110)
GetFileType(path) ==
    CASE Suffix(path) \in {".py"} -> PYTHON
      [] Suffix(path) \in {".js", ".jsx"} -> JAVASCRIPT
      [] Suffix(path) \in {".ts", ".tsx"} -> TYPESCRIPT
      [] Suffix(path) = ".json" -> JSON
      [] Suffix(path) \in {".yaml", ".yml"} -> YAML
      [] Suffix(path) = ".md" -> MARKDOWN
      [] OTHER -> NoFileType

\* severity_order (114-119)
SeverityOrder(sev) ==
    CASE sev = INFO -> 0
      [] sev = SUGGESTION -> 1
      [] sev = WARNING -> 2
      [] sev = ERROR -> 3

\* filter_results_by_severity with the comparison turned round
FilterResultsUpToSeverity(cfg, results) ==
    SelectSeq(results,
              LAMBDA r : SeverityOrder(r.severity) <= SeverityOrder(cfg.severity_threshold))

\* RuleFilter.filter_results_by_severity (112-125)
FilterResultsBySeverity(cfg, results) ==
    SelectSeq(results,
              LAMBDA r : SeverityOrder(r.severity) >= SeverityOrder(cfg.severity_threshold))

\* RuleEngine.is_checker_enabled (157-162)
IsCheckerEnabled(cfg, checker_name) ==
    IF checker_name \notin DOMAIN cfg.checkers
    THEN TRUE
    ELSE cfg.checkers[checker_name].enabled

\* is_rule_enabled without the test of rule_config.enabled
IsRuleEnabledNoRuleFlag(cfg, checker_name, rule_name, path) ==
    IF ~IsCheckerEnabled(cfg, checker_name) THEN FALSE
    ELSE IF checker_name \notin DOMAIN cfg.checkers THEN TRUE
    ELSE IF rule_name \notin DOMAIN cfg.checkers[checker_name].rules THEN TRUE
    ELSE LET rule_config == cfg.checkers[checker_name].rules[rule_name]
         IN IF /\ rule_config.file_types \notin {NoFileTypes, <<>>}
               /\ GetFileType(path) # NoFileType
               /\ GetFileType(path) \notin Range(rule_config.file_types)
            THEN FALSE
            ELSE ~\E p \in Range(rule_config.ignore_patterns) :
                     MatchesPattern(path, p, "glob")

\* RuleEngine.is_rule_enabled (164-192); context.file_type is
\* get_file_type(file_path) (224-229)
IsRuleEnabled(cfg, checker_name, rule_name, path) ==
    IF ~IsCheckerEnabled(cfg, checker_name) THEN FALSE
    ELSE IF checker_name \notin DOMAIN cfg.checkers THEN TRUE
    ELSE IF rule_name \notin DOMAIN cfg.checkers[checker_name].rules THEN TRUE
    ELSE LET rule_config == cfg.checkers[checker_name].rules[rule_name]
         IN IF ~rule_config.enabled THEN FALSE
            ELSE IF /\ rule_config.file_types \notin {NoFileTypes, <<>>}
                    /\ GetFileType(path) # NoFileType
                    /\ GetFileType(path) \notin Range(rule_config.file_types)
            THEN FALSE
            ELSE ~\E p \in Range(rule_config.ignore_patterns) :
                     MatchesPattern(path, p, "glob")

\* RuleEngine.get_effective_severity (202-217)
GetEffectiveSeverity(cfg, checker_name, rule_name, default_severity) ==
    IF checker_name \notin DOMAIN cfg.checkers THEN default_severity
    ELSE IF cfg.checkers[checker_name].severity_override # NoSeverity
    THEN cfg.checkers[checker_name].severity_override
    ELSE IF rule_name \in DOMAIN cfg.checkers[checker_name].rules
    THEN cfg.checkers[checker_name].rules[rule_name].severity
    ELSE default_severity

\* RuleEngine.get_rule_config (194-200) gives a RuleConfig
HasRuleConfig(cfg, checker_name, rule_name) ==
    /\ checker_name \in DOMAIN cfg.checkers
    /\ rule_name \in DOMAIN cfg.checkers[checker_name].rules

\* dict.update
Update(f, g) ==
    [k \in DOMAIN f \cup DOMAIN g |-> IF k \in DOMAIN g THEN g[k] ELSE f[k]]

\* the options of the file type that _execute_rule adds (284-289)
FileTypeOptions(ftc) ==
    [max_line_length |-> ftc.max_line_length,
     max_function_length |-> ftc.max_function_length,
     max_complexity |-> ftc.max_complexity,
     naming_conventions |-> ftc.naming_conventions]

\* _execute_rule, 274-289: the options handed to the rule function.  The
\* options of a configured rule are the dict of its RuleConfig itself.
OptionsFor(cfg, checker_name, rule_name, path) ==
    LET base == IF HasRuleConfig(cfg, checker_name, rule_name)
                THEN cfg.checkers[checker_name].rules[rule_name].options
                ELSE <<>>
    IN IF GetFileType(path) # NoFileType /\ GetFileType(path) \in DOMAIN cfg.file_types
       THEN Update(base, FileTypeOptions(cfg.file_types[GetFileType(path)]))
       ELSE base

\* _execute_rule, 277-289: options.update changes the dict of the RuleConfig
ConfigAfterRule(cfg, checker_name, rule_name, path) ==
    IF HasRuleConfig(cfg, checker_name, rule_name)
    THEN [cfg EXCEPT !.checkers[checker_name].rules[rule_name].options =
                        OptionsFor(cfg, checker_name, rule_name, path)]
    ELSE cfg

\* what the rule functions of the model report: the severity and the line
\* of each finding
RuleFindings(checker_name, rule_name) ==
    CASE checker_name = "security" /\ rule_name = "secrets" ->
            <<[severity |-> ERROR, line_number |-> 1]>>
      [] checker_name = "security" /\ rule_name = "sql" ->
            <<[severity |-> WARNING, line_number |-> 2],
              [severity |-> INFO, line_number |-> 3]>>
      [] OTHER -> <<[severity |-> INFO, line_number |-> 1]>>

\* _execute_rule, 291-321: the RuleResults of one rule function; a rule
\* function that raises gives the empty list
ExecuteRule(checker_name, rule_name, path) ==
    IF behaviour[<<checker_name, rule_name>>] = "raise" THEN <<>>
    ELSE LET found == RuleFindings(checker_name, rule_name)
         IN [j \in 1..Len(found) |->
                [rule_name |-> rule_name, checker_name |-> checker_name,
                 severity |-> found[j].severity, file_path |-> path,
                 line_number |-> found[j].line_number]]

\* execute_rules_for_file, 249-253
WithEffectiveSeverity(cfg, rs) ==
    [j \in 1..Len(rs) |->
        [rs[j] EXCEPT !.severity =
            GetEffectiveSeverity(cfg, rs[j].checker_name, rs[j].rule_name, @)]]

Checker == registry[eci]
Rule == registry[eci].rules[eri]

\* execute_rules_for_file, 219-232
ExecuteRulesBegin ==
    /\ epc \in {"idle", "returned"}
    /\ calls < MaxCalls
    /\ \E path \in EnginePaths :
          /\ efile' = path
          /\ IF ShouldIgnoreFile(config, path)
             THEN /\ result' = <<>>
                  /\ epc' = "returned"
             ELSE /\ result' = <<>>
                  /\ epc' = "loop"
    /\ eci' = 1
    /\ eri' = 1
    /\ all_results' = <<>>
    /\ rules_executed' = 0
    /\ executed' = <<>>
    /\ calls' = calls + 1
    /\ UNCHANGED <<extraVars, loaderVars, parserVars, reviewVars, config, registry, behaviour, run_findings>>

\* execute_rules_for_file, 234-236: a disabled checker is passed over
ExecuteSkipChecker ==
    /\ epc = "loop"
    /\ eci <= Len(registry)
    /\ ~IsCheckerEnabled(config, Checker.name)
    /\ eci' = eci + 1
    /\ eri' = 1
    /\ UNCHANGED <<extraVars, loaderVars, parserVars, reviewVars, config, registry, behaviour, epc, efile,
                   all_results, rules_executed, executed, result, calls, run_findings>>

\* execute_rules_for_file, 240-244: a rule that is not enabled is passed over
ExecuteSkipRule ==
    /\ epc = "loop"
    /\ eci <= Len(registry)
    /\ IsCheckerEnabled(config, Checker.name)
    /\ eri <= Len(Checker.rules)
    /\ ~IsRuleEnabled(config, Checker.name, Rule, efile)
    /\ eri' = eri + 1
    /\ UNCHANGED <<extraVars, loaderVars, parserVars, reviewVars, config, registry, behaviour, epc, efile, eci,
                   all_results, rules_executed, executed, result, calls, run_findings>>

\* execute_rules_for_file, 246-264 with _execute_rule (272-321): one rule is
\* executed; at the limit both loops are left
ExecuteRuleStep ==
    /\ epc = "loop"
    /\ eci <= Len(registry)
    /\ IsCheckerEnabled(config, Checker.name)
    /\ eri <= Len(Checker.rules)
    /\ IsRuleEnabled(config, Checker.name, Rule, efile)
    /\ config' = ConfigAfterRule(config, Checker.name, Rule, efile)
    /\ executed' = Append(executed,
                          [checker_name |-> Checker.name, rule_name |-> Rule,
                           options |-> OptionsFor(config, Checker.name, Rule, efile)])
    /\ all_results' = all_results \o
          WithEffectiveSeverity(config, ExecuteRule(Checker.name, Rule, efile))
    /\ rules_executed' = rules_executed + 1
    /\ run_findings' = run_findings + Len(ExecuteRule(Checker.name, Rule, efile))
    /\ IF Len(all_results') >= config.max_issues_per_run
       THEN epc' = "filter" /\ eri' = eri
       ELSE epc' = epc /\ eri' = eri + 1
    /\ UNCHANGED <<extraVars, loaderVars, parserVars, reviewVars, registry, behaviour, efile, eci, result, calls>>

\* execute_rules_for_file, 240 and 266-267: the rules of a checker are done
ExecuteNextChecker ==
    /\ epc = "loop"
    /\ eci <= Len(registry)
    /\ IsCheckerEnabled(config, Checker.name)
    /\ eri > Len(Checker.rules)
    /\ IF Len(all_results) >= config.max_issues_per_run
       THEN epc' = "filter" /\ UNCHANGED <<eci, eri>>
       ELSE epc' = epc /\ eci' = eci + 1 /\ eri' = 1
    /\ UNCHANGED <<extraVars, loaderVars, parserVars, reviewVars, config, registry, behaviour, efile,
                   all_results, rules_executed, executed, result, calls, run_findings>>

\* execute_rules_for_file, 269-270
ExecuteRulesReturn ==
    /\ \/ epc = "filter"
       \/ epc = "loop" /\ eci > Len(registry)
    /\ result' = FilterResultsBySeverity(config, all_results)
    /\ epc' = "returned"
    /\ UNCHANGED <<extraVars, loaderVars, parserVars, reviewVars, config, registry, behaviour, efile, eci, eri,
                   all_results, rules_executed, executed, calls, run_findings>>

RECURSIVE RulesLoop(_, _, _, _, _)
\* execute_rules_for_file, 234-267, as a function of the configuration and
\* the file: the loops from checker ci and rule ri on, with all_results = acc.
\* The rule functions of the model do not read their options.
RulesLoop(cfg, path, ci, ri, acc) ==
    IF ci > Len(registry) THEN acc
    ELSE IF ~IsCheckerEnabled(cfg, registry[ci].name)
    THEN RulesLoop(cfg, path, ci + 1, 1, acc)
    ELSE IF ri > Len(registry[ci].rules)
    THEN IF Len(acc) >= cfg.max_issues_per_run THEN acc
         ELSE RulesLoop(cfg, path, ci + 1, 1, acc)
    ELSE IF ~IsRuleEnabled(cfg, registry[ci].name, registry[ci].rules[ri], path)
    THEN RulesLoop(cfg, path, ci, ri + 1, acc)
    ELSE LET more == acc \o WithEffectiveSeverity(cfg,
                        ExecuteRule(registry[ci].name, registry[ci].rules[ri], path))
         IN IF Len(more) >= cfg.max_issues_per_run THEN more
            ELSE RulesLoop(cfg, path, ci, ri + 1, more)

\* RuleEngine.execute_rules_for_file (219-270): the list it returns
ExecuteRulesForFile(cfg, path) ==
    IF ShouldIgnoreFile(cfg, path) THEN <<>>
    ELSE FilterResultsBySeverity(cfg, RulesLoop(cfg, path, 1, 1, <<>>))

EngineNext ==
    \/ ExecuteRulesBegin
    \/ ExecuteSkipChecker
    \/ ExecuteSkipRule
    \/ ExecuteRuleStep
    \/ ExecuteNextChecker
    \/ ExecuteRulesReturn

\* a function from a set of names, as a Python dict with these keys
Dicts(keys, values) == UNION {[d -> values] : d \in SUBSET keys}

\* RuleConfig (schema.py:39-46) with the defaults of its fields
DefaultRuleConfig ==
    [enabled |-> TRUE, severity |-> WARNING, options |-> <<>>,
     file_types |-> NoFileTypes, ignore_patterns |-> <<>>]

\* FileTypeSpecificConfig (schema.py:57-65) with the defaults of its fields
DefaultFileTypeConfig ==
    [max_line_length |-> 100, max_function_length |-> 50, max_complexity |-> 10,
     naming_conventions |-> <<>>]

\* no engine is at work
NoEngine ==
    /\ config = [checkers |-> <<>>, severity_threshold |-> INFO,
                 max_issues_per_run |-> 100, ignore_patterns |-> <<>>,
                 include_patterns |-> <<>>, file_types |-> <<>>]
    /\ registry = <<>>
    /\ behaviour = <<>>
    /\ epc = "off"
    /\ efile = ""
    /\ eci = 1
    /\ eri = 1
    /\ all_results = <<>>
    /\ rules_executed = 0
    /\ executed = <<>>
    /\ result = <<>>
    /\ calls = 0
    /\ run_findings = 0

\* ------------------------------------------------ the configuration files
\* the values of FileTypeConfig and of SeverityLevel
FileTypeNames == {PYTHON, JAVASCRIPT, TYPESCRIPT, JSON, YAML, MARKDOWN}
SeverityNames == {ERROR, WARNING, SUGGESTION, INFO}

\* ConfigSchema.extends: Optional[List[str]] = None
NoExtends == <<"none">>

\* CheckerConfig() (schema.py:49-54)
DefaultCheckerConfig ==
    [enabled |-> TRUE, rules |-> <<>>, severity_override |-> NoSeverity]

\* IgnorePattern (schema.py:31-36); the description is not modelled
IgnorePattern(p, t) == [pattern |-> p, type |-> t]

\* OutputConfig() (schema.py:68-76), by its format; class tells the object of
\* the dataclass from the dict of its fields
OutputConfig == [class |-> "OutputConfig", format |-> "terminal"]

\* ConfigSchema() (schema.py:90-134): a configuration with the defaults of
\* its fields.  version, git and custom_rules are not modelled; git is
\* handled as output is.
ConfigSchema ==
    [extends |-> NoExtends,
     checkers |-> [n \in {"complexity", "security", "style", "naming",
                          "variables", "error_handling"} |-> DefaultCheckerConfig],
     severity_threshold |-> INFO,
     fail_on_severity |-> ERROR,
     max_issues_per_run |-> 100,
     ignore_patterns |-> <<IgnorePattern("*.pyc", "glob"),
                           IgnorePattern("node_modules/**", "glob"),
                           IgnorePattern(".git/**", "glob"),
                           IgnorePattern("__pycache__/**", "glob")>>,
     include_patterns |-> <<"**/*.py", "**/*.js", "**/*.ts", "**/*.jsx", "**/*.tsx">>,
     file_types |-> <<>>,
     output |-> OutputConfig]

\* RuleConfig(enabled=True, severity=sev, options=opts)
RuleOf(sev, opts) ==
    [DefaultRuleConfig EXCEPT !.severity = sev, !.options = opts]

\* FileTypeSpecificConfig(max_line_length, max_function_length, max_complexity)
\* with the naming conventions of create_default_config
FileTypeOf(line, func, cplx, naming) ==
    [max_line_length |-> line, max_function_length |-> func,
     max_complexity |-> cplx, naming_conventions |-> naming]

\* create_default_config (schema.py:219-317)
CreateDefaultConfig ==
    [ConfigSchema EXCEPT
        !.file_types =
            (PYTHON :> FileTypeOf(88, 50, 10,
                [function |-> "snake_case", variable |-> "snake_case",
                 class |-> "PascalCase", constant |-> "UPPER_CASE"]))
            @@ (JAVASCRIPT :> FileTypeOf(100, 40, 8,
                [function |-> "camelCase", variable |-> "camelCase",
                 class |-> "PascalCase", constant |-> "UPPER_CASE"]))
            @@ (TYPESCRIPT :> FileTypeOf(100, 40, 8,
                [function |-> "camelCase", variable |-> "camelCase",
                 class |-> "PascalCase", interface |-> "PascalCase",
                 type |-> "PascalCase"])),
        !.checkers["complexity"].rules =
            [max_cyclomatic_complexity |-> RuleOf(WARNING, [threshold |-> 10]),
             max_cognitive_complexity |-> RuleOf(WARNING, [threshold |-> 15]),
             max_function_length |-> RuleOf(SUGGESTION, [threshold |-> 50])],
        !.checkers["security"].rules =
            [hardcoded_secrets |-> RuleOf(ERROR, <<>>),
             sql_injection_risk |-> RuleOf(ERROR, <<>>),
             xss_risk |-> RuleOf(ERROR, <<>>),
             unsafe_eval |-> RuleOf(WARNING, <<>>)],
        !.checkers["style"].rules =
            [line_too_long |-> RuleOf(SUGGESTION, <<>>),
             trailing_whitespace |-> RuleOf(SUGGESTION, <<>>),
             inconsistent_indentation |-> RuleOf(WARNING, <<>>)]]

\* dict.get(key, default)
Get(d, key, default) == IF key \in DOMAIN d THEN d[key] ELSE default

\* ConfigParser._parse_severity (206-216): a string that names no level,
\* and None, give WARNING
ParseSeverity(value) ==
    IF value \in SeverityNames THEN value ELSE WARNING

\* _parse_rules, 243-261: the RuleConfig of one entry
ParseRule(rule_data) ==
    [enabled |-> Get(rule_data, "enabled", TRUE),
     severity |-> IF "severity" \in DOMAIN rule_data
                  THEN ParseSeverity(rule_data.severity) ELSE WARNING,
     options |-> Get(rule_data, "options", <<>>),
     file_types |-> Get(rule_data, "file_types", NoFileTypes),
     ignore_patterns |-> Get(rule_data, "ignore_patterns", <<>>)]

\* ConfigParser._parse_rules (238-265)
ParseRules(rules_config) ==
    [n \in DOMAIN rules_config |-> ParseRule(rules_config[n])]

\* _parse_rules, 255-259: the comprehension over rule_data['file_types']
\* raises TypeError when the value is None, and FileTypeConfig(ft) raises
\* ValueError when ft names no file type
ParseRulesRaises(rules_config) ==
    \E n \in DOMAIN rules_config :
        /\ "file_types" \in DOMAIN rules_config[n]
        /\ \/ rules_config[n].file_types = NoFileTypes
           \/ \E ft \in Range(rules_config[n].file_types) : ft \notin FileTypeNames

\* _parse_checkers, 223-232: the CheckerConfig of one entry
ParseChecker(checker_data) ==
    [enabled |-> Get(checker_data, "enabled", TRUE),
     severity_override |-> IF "severity_override" \in DOMAIN checker_data
                           THEN ParseSeverity(checker_data.severity_override)
                           ELSE NoSeverity,
     rules |-> IF "rules" \in DOMAIN checker_data
               THEN ParseRules(checker_data.rules) ELSE <<>>]

\* ConfigParser._parse_checkers (218-236)
ParseCheckers(checkers_config) ==
    [n \in DOMAIN checkers_config |-> ParseChecker(checkers_config[n])]

\* ConfigParser._parse_ignore_patterns (267-281), on entries that are dicts
ParseIgnorePatterns(patterns_config) ==
    [j \in 1..Len(patterns_config) |->
        IgnorePattern(patterns_config[j].pattern,
                      Get(patterns_config[j], "type", "glob"))]

\* ConfigParser._parse_file_types (283-308): an unknown file type is left out
ParseFileTypes(file_types_config) ==
    [t \in DOMAIN file_types_config \cap FileTypeNames |->
        FileTypeOf(Get(file_types_config[t], "max_line_length", 100),
                   Get(file_types_config[t], "max_function_length", 50),
                   Get(file_types_config[t], "max_complexity", 10),
                   Get(file_types_config[t], "naming_conventions", <<>>))]

\* ConfigParser._parse_output_config (310-313): the dict as it is
ParseOutputConfig(output_config) == output_config

\* ConfigParser._convert_to_schema (156-204)
ConvertToSchema(raw_config) ==
    [extends |-> Get(raw_config, "extends", NoExtends),
     severity_threshold |-> IF "severity_threshold" \in DOMAIN raw_config
                            THEN ParseSeverity(raw_config.severity_threshold)
                            ELSE ConfigSchema.severity_threshold,
     fail_on_severity |-> IF "fail_on_severity" \in DOMAIN raw_config
                          THEN ParseSeverity(raw_config.fail_on_severity)
                          ELSE ConfigSchema.fail_on_severity,
     max_issues_per_run |-> Get(raw_config, "max_issues_per_run",
                                ConfigSchema.max_issues_per_run),
     checkers |-> IF "checkers" \in DOMAIN raw_config
                  THEN ParseCheckers(raw_config.checkers)
                  ELSE ConfigSchema.checkers,
     ignore_patterns |-> IF "ignore_patterns" \in DOMAIN raw_config
                         THEN ParseIgnorePatterns(raw_config.ignore_patterns)
                         ELSE ConfigSchema.ignore_patterns,
     include_patterns |-> Get(raw_config, "include_patterns",
                              ConfigSchema.include_patterns),
     file_types |-> IF "file_types" \in DOMAIN raw_config
                    THEN ParseFileTypes(raw_config.file_types)
                    ELSE ConfigSchema.file_types,
     output |-> IF "output" \in DOMAIN raw_config
                THEN ParseOutputConfig(raw_config.output)
                ELSE ConfigSchema.output]

\* _convert_to_schema raises what _parse_rules raises
ConvertRaises(raw_config) ==
    /\ "checkers" \in DOMAIN raw_config
    /\ \E c \in DOMAIN raw_config.checkers :
          /\ "rules" \in DOMAIN raw_config.checkers[c]
          /\ ParseRulesRaises(raw_config.checkers[c].rules)

\* _convert_value_to_dict (357-370) of an object whose class the model
\* records: the dict of its fields
AsDict(value) == [k \in DOMAIN value \ {"class"} |-> value[k]]

\* ConfigParser._schema_to_dict (345-355) with _convert_value_to_dict
\* (357-370).  A dataclass becomes the dict of its fields and an enum member
\* its value; in the model a dataclass is the record of its fields and an
\* enum member is its value.  A field of ConfigSchema that is None is left
\* out; a None inside a checker or a rule stays in the dict.
SchemaToDict(cfg) ==
    [k \in {f \in DOMAIN cfg : f = "extends" => cfg.extends # NoExtends} |->
        IF k = "output" THEN AsDict(cfg[k]) ELSE cfg[k]]

\* isinstance(result[key], dict) and isinstance(value, dict) in _deep_merge,
\* for the key of a dict found at this place of a configuration.  The
\* options and the naming conventions of the model hold no dicts.
HoldsDicts(at, key) ==
    CASE at = "config" -> key \in {"checkers", "file_types", "output"}
      [] at = "checkers" -> TRUE
      [] at = "checker" -> key = "rules"
      [] at = "rules" -> TRUE
      [] at = "rule" -> key = "options"
      [] at = "file_types" -> TRUE
      [] at = "file_type" -> key = "naming_conventions"
      [] OTHER -> FALSE

\* the place of the dict under a key
Below(at, key) ==
    CASE at = "config" -> key
      [] at = "checkers" -> "checker"
      [] at = "checker" -> "rules"
      [] at = "rules" -> "rule"
      [] at = "file_types" -> "file_type"
      [] OTHER -> "options"

RECURSIVE DeepMerge(_, _, _)
\* ConfigParser._deep_merge (372-382)
DeepMerge(base, override, at) ==
    [key \in DOMAIN base \cup DOMAIN override |->
        IF key \notin DOMAIN override THEN base[key]
        ELSE IF key \in DOMAIN base /\ HoldsDicts(at, key)
        THEN DeepMerge(base[key], override[key], Below(at, key))
        ELSE override[key]]

\* ConfigParser.merge_configs (107-120): the dict that is converted
MergedDict(base_config, override_config) ==
    DeepMerge(SchemaToDict(base_config), override_config, "config")

\* ConfigParser.merge_configs (107-120)
ParserMergeConfigs(base_config, override_config) ==
    ConvertToSchema(MergedDict(base_config, override_config))

\* merge_configs raises what _convert_to_schema raises
ParserMergeRaises(base_config, override_config) ==
    ConvertRaises(MergedDict(base_config, override_config))

\* Path.exists() of a configuration file
Exists(path) == path \in DOMAIN cfs /\ cfs[path].st # "missing"

\* ConfigParser._parse_file (140-154): the dict of the file; a text that is
\* neither YAML nor JSON raises
ParseFile(path) == cfs[path].raw
ParseFileRaises(path) == cfs[path].st = "invalid"

\* _merge_extended_configs, 328-341: one pass of the loop.  A file that does
\* not exist is passed over; an exception is logged and leaves
\* merged_config as it was.
MergeExtended(merged_config, extend_path) ==
    IF ~Exists(extend_path) THEN merged_config
    ELSE IF ParseFileRaises(extend_path) \/ ConvertRaises(ParseFile(extend_path))
    THEN merged_config
    ELSE LET extended_config == ConvertToSchema(ParseFile(extend_path))
             merged_dict == DeepMerge(SchemaToDict(extended_config),
                                      SchemaToDict(merged_config), "config")
         IN IF ConvertRaises(merged_dict) THEN merged_config
            ELSE ConvertToSchema(merged_dict)

RECURSIVE MergeExtendedFrom(_, _)
\* _merge_extended_configs, 327: the loop over config.extends
MergeExtendedFrom(merged_config, extends) ==
    IF extends = <<>> THEN merged_config
    ELSE MergeExtendedFrom(MergeExtended(merged_config, Head(extends)), Tail(extends))

\* ConfigParser._merge_extended_configs (320-343)
MergeExtendedConfigs(cfg) ==
    IF cfg.extends \in {NoExtends, <<>>} THEN cfg
    ELSE MergeExtendedFrom(cfg, cfg.extends)

\* the glob patterns of the model that hold '*' or '?' or end with '/'
HasGlobChar(pattern) ==
    pattern \in {"*.py", "*.log", "*.pyc", "tests/*", "*", "node_modules/**",
                 ".git/**", "__pycache__/**", "**/*.py", "**/*.js", "**/*.ts",
                 "**/*.jsx", "**/*.tsx"}

\* ConfigValidator.validate_pattern (schema.py:159-170); the regular
\* expressions of the model compile
ValidatePattern(pattern, pattern_type) ==
    pattern_type = "glob" => HasGlobChar(pattern)

\* ConfigValidator.validate_severity_level (schema.py:150-157)
ValidateSeverityLevel(value) == value \in SeverityNames

\* ConfigValidator.validate_config (schema.py:181-216): the messages
ValidateSchema(cfg) ==
    {[message |-> "Invalid severity_threshold", about |-> cfg.severity_threshold] :
        x \in {y \in {1} : ~ValidateSeverityLevel(cfg.severity_threshold)}}
    \cup {[message |-> "Invalid fail_on_severity", about |-> cfg.fail_on_severity] :
        x \in {y \in {1} : ~ValidateSeverityLevel(cfg.fail_on_severity)}}
    \cup {[message |-> "Invalid ignore pattern", about |-> q.pattern] :
        q \in {r \in Range(cfg.ignore_patterns) : ~ValidatePattern(r.pattern, r.type)}}
    \cup {[message |-> "Invalid include pattern", about |-> q] :
        q \in {r \in Range(cfg.include_patterns) : ~ValidatePattern(r, "glob")}}
    \cup {[message |-> "Invalid severity override for checker", about |-> c] :
        c \in {d \in DOMAIN cfg.checkers :
                 /\ cfg.checkers[d].severity_override # NoSeverity
                 /\ ~ValidateSeverityLevel(cfg.checkers[d].severity_override)}}
    \cup {[message |-> "Invalid severity for rule", about |-> c] :
        c \in {d \in DOMAIN cfg.checkers :
                 \E r \in DOMAIN cfg.checkers[d].rules :
                    ~ValidateSeverityLevel(cfg.checkers[d].rules[r].severity)}}

\* ConfigParser.load_config (29-73) for a path that is given: the
\* configuration returned, how it came about, and the errors that are logged
LoadConfig(config_path) ==
    IF ~Exists(config_path)
    THEN [config |-> CreateDefaultConfig, from |-> "not found", errors |-> {}]
    ELSE IF ParseFileRaises(config_path) \/ ConvertRaises(ParseFile(config_path))
    THEN [config |-> CreateDefaultConfig, from |-> "exception", errors |-> {}]
    ELSE LET cfg == MergeExtendedConfigs(ConvertToSchema(ParseFile(config_path)))
         IN [config |-> cfg, from |-> "file", errors |-> ValidateSchema(cfg)]

RECURSIVE AppendNew(_, _)
\* the loops of _merge_lists (163-167) and of _merge_ignore_patterns
\* (125-128): an item is appended unless it is among the items so far
AppendNew(merged, override) ==
    IF override = <<>> THEN merged
    ELSE AppendNew(IF Head(override) \in Range(merged) THEN merged
                   ELSE Append(merged, Head(override)),
                   Tail(override))

\* ConfigMerger._merge_lists (validation.py:153-169), on lists of strings
MergeLists(base, override) ==
    IF base = <<>> THEN override
    ELSE IF override = <<>> THEN base
    ELSE AppendNew(base, override)

\* ConfigMerger._merge_ignore_patterns (validation.py:120-130)
MergeIgnorePatterns(base, override) == AppendNew(base, override)

\* ConfigMerger._merge_dicts (validation.py:171-186), on dicts that hold no
\* dicts
MergeDicts(base, override) ==
    IF DOMAIN base = {} THEN override
    ELSE IF DOMAIN override = {} THEN base
    ELSE Update(base, override)

\* _merge_rules, 104-114: a rule of both configurations
MergeRule(base_rule, override_rule) ==
    [enabled |-> override_rule.enabled,
     severity |-> override_rule.severity,
     options |-> MergeDicts(base_rule.options, override_rule.options),
     file_types |-> IF override_rule.file_types \notin {NoFileTypes, <<>>}
                    THEN override_rule.file_types ELSE base_rule.file_types,
     ignore_patterns |-> MergeLists(base_rule.ignore_patterns,
                                    override_rule.ignore_patterns)]

\* ConfigMerger._merge_rules (validation.py:98-118)
MergeRules(base, override) ==
    [n \in DOMAIN base \cup DOMAIN override |->
        IF n \notin DOMAIN override THEN base[n]
        ELSE IF n \in DOMAIN base THEN MergeRule(base[n], override[n])
        ELSE override[n]]

\* _merge_checkers, 80-92: a checker of both configurations
MergeChecker(base_checker, override_checker) ==
    [enabled |-> override_checker.enabled,
     severity_override |-> IF override_checker.severity_override # NoSeverity
                           THEN override_checker.severity_override
                           ELSE base_checker.severity_override,
     rules |-> MergeRules(base_checker.rules, override_checker.rules)]

\* ConfigMerger._merge_checkers (validation.py:74-96)
MergeCheckers(base, override) ==
    [n \in DOMAIN base \cup DOMAIN override |->
        IF n \notin DOMAIN override THEN base[n]
        ELSE IF n \in DOMAIN base THEN MergeChecker(base[n], override[n])
        ELSE override[n]]

\* ConfigMerger._merge_file_types (validation.py:132-151): no attribute of
\* a FileTypeSpecificConfig is None, so the override's value stands
MergeFileTypes(base, override) == Update(base, override)

\* isinstance(value, dict), for the output of a configuration
IsDict(value) == "class" \notin DOMAIN value

\* ConfigMerger.merge_configs (validation.py:66-67) raises TypeError: the
\* output of the override is a dict and _merge_dicts (171-186) tests
\* 'key in merged' on the OutputConfig of the base
MergerMergeRaises(base, override) ==
    IsDict(override.output) /\ ~IsDict(base.output)

\* ConfigMerger.merge_configs (validation.py:31-72)
MergerMergeConfigs(base, override) ==
    [extends |-> IF override.extends = NoExtends THEN base.extends
                 ELSE override.extends,
     checkers |-> MergeCheckers(base.checkers, override.checkers),
     severity_threshold |-> override.severity_threshold,
     fail_on_severity |-> override.fail_on_severity,
     max_issues_per_run |-> override.max_issues_per_run,
     ignore_patterns |-> MergeIgnorePatterns(base.ignore_patterns,
                                             override.ignore_patterns),
     include_patterns |-> MergeLists(base.include_patterns,
                                     override.include_patterns),
     file_types |-> MergeFileTypes(base.file_types, override.file_types),
     output |-> IF IsDict(override.output)
                THEN Update(base.output, override.output)
                ELSE override.output]

RECURSIVE ResolveExtends(_, _)
RECURSIVE ResolveFrom(_, _, _)
\* ConfigInheritance.resolve_extends (validation.py:378-404).  depth is the
\* number of calls that are open.  Every nested call is for a file that
\* exists, and load_config of a file gives the same configuration each
\* time, so with more open calls than files the recursion does not end and
\* Python raises RecursionError.
ResolveExtends(cfg, depth) ==
    IF cfg.extends \in {NoExtends, <<>>}
    THEN [raised |-> FALSE, error |-> "none", config |-> cfg]
    ELSE IF depth > Cardinality(DOMAIN cfs)
    THEN [raised |-> TRUE, error |-> "RecursionError", config |-> cfg]
    ELSE ResolveFrom([cfg EXCEPT !.extends = NoExtends], cfg.extends, depth)

\* resolve_extends, 396-402: the loop over config.extends, with
\* _load_parent_config (406-426)
ResolveFrom(resolved_config, extends, depth) ==
    IF extends = <<>>
    THEN [raised |-> FALSE, error |-> "none", config |-> resolved_config]
    ELSE IF ~Exists(Head(extends))
    THEN ResolveFrom(resolved_config, Tail(extends), depth)
    ELSE LET parent == ResolveExtends(LoadConfig(Head(extends)).config, depth + 1)
         IN IF parent.raised THEN [parent EXCEPT !.config = resolved_config]
            ELSE IF MergerMergeRaises(parent.config, resolved_config)
            THEN [raised |-> TRUE, error |-> "TypeError", config |-> resolved_config]
            ELSE ResolveFrom(MergerMergeConfigs(parent.config, resolved_config),
                             Tail(extends), depth)

\* RuleEngine.validate_configuration (rule_engine.py:368-387): the messages
ValidateConfiguration(cfg) ==
    {[message |-> "Unknown checker", about |-> c] :
        c \in {d \in DOMAIN cfg.checkers :
                 ~\E g \in Range(registry) : g.name = d}}
    \cup {[message |-> "Unknown rule", about |-> c] :
        c \in {d \in DOMAIN cfg.checkers :
                 \E g \in Range(registry) :
                    /\ g.name = d
                    /\ DOMAIN cfg.checkers[d].rules \ Range(g.rules) # {}}}

\* no call yet
NoLoad == [config |-> ConfigSchema, from |-> "none", errors |-> {}]
NoMerge == [called |-> FALSE, raised |-> FALSE, base |-> ConfigSchema,
            override |-> <<>>]
NoMessages == [called |-> FALSE, list |-> {}]
NoResolve == [called |-> FALSE, raised |-> FALSE, error |-> "none", config |-> ConfigSchema]
NoOutcome == [called |-> FALSE, by |-> "none", config_failed |-> FALSE, result |-> <<>>]
\* nobody holds a tree of the ConfigManager
NoHeld == [taken |-> FALSE, same |-> FALSE, tree |-> <<>>, at |-> <<>>]
NoOp == [op |-> "none", checker_name |-> "", rule_name |-> "", raised |-> FALSE]

\* no manager is in use and no function is under study
NoExtra ==
    /\ held = NoHeld
    /\ last_op = NoOp
    /\ arg = <<>>
    /\ ret = <<>>
    /\ fpc = "off"

\* the file that ConfigManager is given
ChildPath == "child"

\* ConfigManager.__init__ (config_manager.py:101-110) with
\* _load_configuration (112-123): load_config, then the overrides of the
\* environment through ConfigParser.merge_configs, whose exception leaves
\* the constructor
ManagerInit ==
    /\ lpc = "new"
    /\ loaded' = LoadConfig(ChildPath)
    /\ IF DOMAIN env = {}
       THEN /\ config' = loaded'.config
            /\ lpc' = "ready"
            /\ UNCHANGED merge_call
       ELSE /\ merge_call' = [called |-> TRUE,
                              raised |-> ParserMergeRaises(loaded'.config, env),
                              base |-> loaded'.config, override |-> env]
            /\ IF merge_call'.raised
               THEN lpc' = "raised" /\ UNCHANGED config
               ELSE lpc' = "ready" /\ config' = ParserMergeConfigs(loaded'.config, env)
    /\ UNCHANGED <<extraVars, parserVars, reviewVars, registry, behaviour, epc, efile, eci, eri,
                   all_results, rules_executed, executed, result, calls, run_findings,
                   cfs, env, messages, resolved, updates, outcome>>

\* the dicts given to update_config by the callers of the model
UpdateDicts ==
    {[checkers |-> [security |-> [enabled |-> TRUE]]],
     [severity_threshold |-> ERROR],
     [include_patterns |-> <<"*.py">>]}

\* ConfigManager.update_config (config_manager.py:136-141)
UpdateConfig ==
    /\ lpc = "ready"
    /\ updates < MaxUpdates
    /\ \E u \in UpdateDicts :
          /\ merge_call' = [called |-> TRUE, raised |-> ParserMergeRaises(config, u),
                            base |-> config, override |-> u]
          /\ IF merge_call'.raised
             THEN lpc' = "raised" /\ UNCHANGED config
             ELSE lpc' = "ready" /\ config' = ParserMergeConfigs(config, u)
    /\ updates' = updates + 1
    /\ held' = IF lpc' = "ready" THEN [held EXCEPT !.same = FALSE] ELSE held
    /\ last_op' = [NoOp EXCEPT !.op = "update_config", !.raised = (lpc' = "raised")]
    /\ UNCHANGED <<arg, ret, fpc, parserVars, reviewVars, registry, behaviour, epc, efile,
                   eci, eri, all_results, rules_executed, executed, result, calls,
                   run_findings, cfs, env, loaded, messages, resolved, outcome>>

\* ConfigManager.validate_config (config_manager.py:166-183)
ValidateConfig ==
    /\ lpc = "ready"
    /\ ~messages.called
    /\ messages' = [called |-> TRUE,
                    list |-> ValidateSchema(config) \cup ValidateConfiguration(config)]
    /\ UNCHANGED <<extraVars, parserVars, reviewVars, engineVars,
                   cfs, env, lpc, loaded, merge_call, resolved, updates, outcome>>

\* ConfigInheritance.resolve_extends (validation.py:378-404), called with
\* the configuration of the file as _convert_to_schema gives it
ResolveExtendsCall ==
    /\ lpc = "new"
    /\ Exists(ChildPath)
    /\ ~ParseFileRaises(ChildPath)
    /\ ~ConvertRaises(ParseFile(ChildPath))
    /\ resolved' = [called |-> TRUE] @@
                   ResolveExtends(ConvertToSchema(ParseFile(ChildPath)), 0)
    /\ lpc' = "resolved"
    /\ UNCHANGED <<extraVars, parserVars, reviewVars, engineVars,
                   cfs, env, loaded, merge_call, messages, updates, outcome>>

LoadNext ==
    \/ ManagerInit
    \/ UpdateConfig
    \/ ValidateConfig
    \/ ResolveExtendsCall

\* no configuration is being loaded
NoLoader ==
    /\ cfs = <<>>
    /\ env = <<>>
    /\ lpc = "off"
    /\ loaded = NoLoad
    /\ merge_call = NoMerge
    /\ messages = NoMessages
    /\ resolved = NoResolve
    /\ updates = 0
    /\ outcome = NoOutcome

\* ------------------------------------------------- the ConfigManager in use
\* ConfigManager.get_config (config_manager.py:125-127) and get_rule_engine
\* (147-149): the caller gets self.config itself, and the RuleEngine was
\* built on self.config (108), so what the caller holds is the object the
\* manager holds
GetConfig ==
    /\ lpc = "ready"
    /\ ~held.taken
    /\ held' = [taken |-> TRUE, same |-> TRUE, tree |-> config, at |-> config]
    /\ UNCHANGED <<parserVars, reviewVars, engineVars, loaderVars, last_op, arg, ret, fpc>>

\* what the holder sees after the manager's object has become new_config:
\* an assignment to self.config leaves the held object alone, a change made
\* inside the object shows in it
AfterAssignment == [held EXCEPT !.same = FALSE]
AfterMutation(new_config) ==
    IF held.taken /\ held.same THEN [held EXCEPT !.tree = new_config] ELSE held

\* ConfigManager.reload_config (config_manager.py:129-134) for the file the
\* manager was made for
ReloadConfig ==
    /\ lpc = "ready"
    /\ updates < MaxUpdates
    /\ loaded' = LoadConfig(ChildPath)
    /\ IF DOMAIN env = {}
       THEN /\ config' = loaded'.config
            /\ lpc' = "ready"
            /\ UNCHANGED merge_call
       ELSE /\ merge_call' = [called |-> TRUE,
                              raised |-> ParserMergeRaises(loaded'.config, env),
                              base |-> loaded'.config, override |-> env]
            /\ IF merge_call'.raised
               THEN lpc' = "raised" /\ UNCHANGED config
               ELSE lpc' = "ready" /\ config' = ParserMergeConfigs(loaded'.config, env)
    /\ updates' = updates + 1
    /\ held' = IF lpc' = "ready" THEN AfterAssignment ELSE held
    /\ last_op' = [NoOp EXCEPT !.op = "reload_config", !.raised = (lpc' = "raised")]
    /\ UNCHANGED <<parserVars, reviewVars, registry, behaviour, epc, efile, eci, eri,
                   all_results, rules_executed, executed, result, calls, run_findings,
                   cfs, env, messages, resolved, outcome, arg, ret, fpc>>

\* profiles (config_manager.py:221-250)
Profiles ==
    [strict |->
        [severity_threshold |-> "suggestion", fail_on_severity |-> "warning",
         checkers |-> [complexity |-> [severity_override |-> "warning"],
                       style |-> [severity_override |-> "warning"],
                       security |-> [severity_override |-> "error"]]],
     relaxed |->
        [severity_threshold |-> "warning", fail_on_severity |-> "error",
         checkers |-> [style |-> [enabled |-> FALSE],
                       complexity |-> [severity_override |-> "suggestion"]]],
     security_focused |->
        [severity_threshold |-> "info", fail_on_severity |-> "warning",
         checkers |-> [security |-> [severity_override |-> "error"],
                       style |-> [enabled |-> FALSE],
                       complexity |-> [enabled |-> FALSE]]]]

\* ConfigManager.apply_severity_profile (config_manager.py:219-254): a
\* profile that is known goes to update_config, another one is logged
ApplySeverityProfile ==
    /\ lpc = "ready"
    /\ updates < MaxUpdates
    /\ \E profile \in DOMAIN Profiles \cup {"nosuch"} :
          IF profile \in DOMAIN Profiles
          THEN /\ merge_call' = [called |-> TRUE,
                                 raised |-> ParserMergeRaises(config, Profiles[profile]),
                                 base |-> config, override |-> Profiles[profile]]
               /\ IF merge_call'.raised
                  THEN lpc' = "raised" /\ UNCHANGED <<config, held>>
                  ELSE /\ lpc' = "ready"
                       /\ config' = ParserMergeConfigs(config, Profiles[profile])
                       /\ held' = AfterAssignment
               /\ last_op' = [NoOp EXCEPT !.op = "apply_severity_profile",
                                          !.raised = merge_call'.raised]
          ELSE /\ UNCHANGED <<merge_call, lpc, config, held>>
               /\ last_op' = [NoOp EXCEPT !.op = "apply_severity_profile"]
    /\ updates' = updates + 1
    /\ UNCHANGED <<parserVars, reviewVars, registry, behaviour, epc, efile, eci, eri,
                   all_results, rules_executed, executed, result, calls, run_findings,
                   cfs, env, loaded, messages, resolved, outcome, arg, ret, fpc>>

\* the checkers and rules the callers of the model name
OpCheckers == {"security", "style"}
OpRules == {"secrets", "sql"}

\* self.config.checkers[checker_name].rules[rule_name] after
\* "if rule_name not in ...: ... = RuleConfig()"
WithRule(cfg, checker_name, rule_name) ==
    IF rule_name \in DOMAIN cfg.checkers[checker_name].rules THEN cfg
    ELSE [cfg EXCEPT !.checkers[checker_name].rules =
                        Update(@, [n \in {rule_name} |-> DefaultRuleConfig])]

\* ConfigManager.enable_rule (config_manager.py:282-292).  CheckerConfig is
\* not a name of the module (imports, 12-15), so line 285 raises NameError
\* for a checker the configuration does not hold
EnableRule ==
    /\ lpc = "ready"
    /\ updates < MaxUpdates
    /\ \E checker_name \in OpCheckers, rule_name \in OpRules :
          IF checker_name \notin DOMAIN config.checkers
          THEN /\ UNCHANGED <<config, held>>
               /\ last_op' = [op |-> "enable_rule", checker_name |-> checker_name,
                              rule_name |-> rule_name, raised |-> TRUE]
          ELSE /\ config' = [WithRule(config, checker_name, rule_name) EXCEPT
                                !.checkers[checker_name].rules[rule_name].enabled = TRUE]
               /\ held' = AfterMutation(config')
               /\ last_op' = [op |-> "enable_rule", checker_name |-> checker_name,
                              rule_name |-> rule_name, raised |-> FALSE]
    /\ updates' = updates + 1
    /\ UNCHANGED <<parserVars, reviewVars, registry, behaviour, epc, efile, eci, eri,
                   all_results, rules_executed, executed, result, calls, run_findings,
                   cfs, env, lpc, loaded, merge_call, messages, resolved, outcome,
                   arg, ret, fpc>>

\* ConfigManager.disable_rule (config_manager.py:294-298)
DisableRule ==
    /\ lpc = "ready"
    /\ updates < MaxUpdates
    /\ \E checker_name \in OpCheckers, rule_name \in OpRules :
          /\ IF HasRuleConfig(config, checker_name, rule_name)
             THEN /\ config' = [config EXCEPT
                                   !.checkers[checker_name].rules[rule_name].enabled = FALSE]
                  /\ held' = AfterMutation(config')
             ELSE UNCHANGED <<config, held>>
          /\ last_op' = [op |-> "disable_rule", checker_name |-> checker_name,
                         rule_name |-> rule_name, raised |-> FALSE]
    /\ updates' = updates + 1
    /\ UNCHANGED <<parserVars, reviewVars, registry, behaviour, epc, efile, eci, eri,
                   all_results, rules_executed, executed, result, calls, run_findings,
                   cfs, env, lpc, loaded, merge_call, messages, resolved, outcome,
                   arg, ret, fpc>>

\* self.config.checkers after "if checker_name not in ...: ... = CheckerConfig()"
WithChecker(cfg, checker_name) ==
    IF checker_name \in DOMAIN cfg.checkers THEN cfg
    ELSE [cfg EXCEPT !.checkers = Update(@, [n \in {checker_name} |-> DefaultCheckerConfig])]

\* ConfigManager.set_rule_severity (config_manager.py:300-314);
\* SeverityLevel(severity) raises ValueError for a string that names no level
SetRuleSeverity ==
    /\ lpc = "ready"
    /\ updates < MaxUpdates
    /\ \E checker_name \in OpCheckers, rule_name \in OpRules, severity \in {ERROR, "fatal"} :
          IF severity \notin SeverityNames
          THEN /\ UNCHANGED <<config, held>>
               /\ last_op' = [op |-> "set_rule_severity", checker_name |-> checker_name,
                              rule_name |-> rule_name, raised |-> TRUE]
          ELSE /\ config' = [WithRule(WithChecker(config, checker_name),
                                      checker_name, rule_name) EXCEPT
                                !.checkers[checker_name].rules[rule_name].severity = severity]
               /\ held' = AfterMutation(config')
               /\ last_op' = [op |-> "set_rule_severity", checker_name |-> checker_name,
                              rule_name |-> rule_name, raised |-> FALSE]
    /\ updates' = updates + 1
    /\ UNCHANGED <<parserVars, reviewVars, registry, behaviour, epc, efile, eci, eri,
                   all_results, rules_executed, executed, result, calls, run_findings,
                   cfs, env, lpc, loaded, merge_call, messages, resolved, outcome,
                   arg, ret, fpc>>

ManagerNext ==
    \/ ManagerInit
    \/ GetConfig
    \/ UpdateConfig
    \/ ReloadConfig
    \/ ApplySeverityProfile
    \/ EnableRule
    \/ DisableRule
    \/ SetRuleSeverity

\* ------------------------------------------------------ the dictionary form
\* _convert_to_schema(_schema_to_dict(c)): what it returns, or that it raises
SchemaOfDict(c) ==
    IF ConvertRaises(SchemaToDict(c)) THEN [raised |-> TRUE, config |-> c]
    ELSE [raised |-> FALSE, config |-> ConvertToSchema(SchemaToDict(c))]

\* ConfigParser._schema_to_dict (345-355) followed by _convert_to_schema
\* (156-204), on the configuration arg
RoundTrip ==
    /\ fpc = "ready"
    /\ ret' = SchemaOfDict(arg)
    /\ fpc' = "converted"
    /\ UNCHANGED <<parserVars, reviewVars, engineVars, loaderVars, held, last_op, arg>>

\* ConfigParser.merge_configs (107-120) of an empty override into arg
MergeNothing ==
    /\ fpc = "ready"
    /\ ret' = IF ParserMergeRaises(arg, <<>>) THEN [raised |-> TRUE, config |-> arg]
              ELSE [raised |-> FALSE, config |-> ParserMergeConfigs(arg, <<>>)]
    /\ fpc' = "merged"
    /\ UNCHANGED <<parserVars, reviewVars, engineVars, loaderVars, held, last_op, arg>>

RoundTripNext ==
    \/ RoundTrip
    \/ MergeNothing

\* ------------------------------------------------------------ the checkers
\* ComplexityChecker.__init__ (24-28): the thresholds of a configuration that
\* sets none
max_cyclomatic_complexity == 10
max_cognitive_complexity == 15
max_function_length == 50
max_nesting_depth == 4
max_parameters == 7

\* the metrics of _analyze_function (496-504), in the order in which
\* _check_python_complexity tests them
MetricNames ==
    <<"cyclomatic_complexity", "cognitive_complexity", "length",
      "max_nesting_depth", "parameter_count">>

\* the threshold a metric is compared with (86, 96, 106, 116, 126)
Threshold(metric) ==
    CASE metric = "cyclomatic_complexity" -> max_cyclomatic_complexity
      [] metric = "cognitive_complexity" -> max_cognitive_complexity
      [] metric = "length" -> max_function_length
      [] metric = "max_nesting_depth" -> max_nesting_depth
      [] metric = "parameter_count" -> max_parameters

\* the type of the issue of a metric (88, 98, 108, 118, 128)
IssueType(metric) ==
    CASE metric = "cyclomatic_complexity" -> "high_cyclomatic_complexity"
      [] metric = "cognitive_complexity" -> "high_cognitive_complexity"
      [] metric = "length" -> "long_function"
      [] metric = "max_nesting_depth" -> "deep_nesting"
      [] metric = "parameter_count" -> "too_many_parameters"

\* the severity of the issue of a metric (89, 99, 109, 119, 129)
IssueSeverity(metric) == IF metric = "length" THEN INFO ELSE WARNING

\* function_metrics[node.name] = metrics (489) on a dict kept as the list of
\* its items: a name that is a key already keeps its place and takes the
\* new value
SetItem(items, key, value) ==
    IF \E j \in 1..Len(items) : items[j].key = key
    THEN [j \in 1..Len(items) |->
            IF items[j].key = key THEN [key |-> key, value |-> value] ELSE items[j]]
    ELSE Append(items, [key |-> key, value |-> value])

RECURSIVE AnalyzeFrom(_, _)
\* PythonComplexityAnalyzer.analyze (481-490): the loop over the function
\* definitions that ast.walk yields
AnalyzeFrom(nodes, function_metrics) ==
    IF nodes = <<>> THEN function_metrics
    ELSE AnalyzeFrom(Tail(nodes), SetItem(function_metrics, Head(nodes).name, Head(nodes)))

RECURSIVE IssuesOfFunction(_, _)
\* _check_python_complexity, 85-133: the issues of one function, for the
\* metrics that are left to test
IssuesOfFunction(func_metrics, metrics) ==
    IF metrics = <<>> THEN <<>>
    ELSE (IF func_metrics[Head(metrics)] > Threshold(Head(metrics))
          THEN <<[type |-> IssueType(Head(metrics)),
                  severity |-> IssueSeverity(Head(metrics)),
                  line |-> func_metrics.line_start]>>
          ELSE <<>>)
         \o IssuesOfFunction(func_metrics, Tail(metrics))

RECURSIVE IssuesOfItems(_)
\* _check_python_complexity, 84: the loop over function_metrics.items()
IssuesOfItems(items) ==
    IF items = <<>> THEN <<>>
    ELSE IssuesOfFunction(Head(items).value, MetricNames) \o IssuesOfItems(Tail(items))

\* ComplexityChecker._check_python_complexity (72-135): the issues for the
\* function definitions of a file
CheckPythonComplexity(nodes) == IssuesOfItems(AnalyzeFrom(nodes, <<>>))

\* ComplexityChecker.check (30-70) of a Python file whose function
\* definitions are arg
CheckComplexity ==
    /\ fpc = "ready"
    /\ ret' = CheckPythonComplexity(arg)
    /\ fpc' = "checked"
    /\ UNCHANGED <<parserVars, reviewVars, engineVars, loaderVars, held, last_op, arg>>

\* hash(item) of what PythonScopeAnalyzer puts into a set: a tuple that
\* holds a dict is unhashable
Hashable(item) == ~item.info_is_dict

\* the tuple (name, {'line': lineno}) of visit_FunctionDef (352),
\* visit_Assign (391) and visit_Name (400)
NameItem(event, line) == [name |-> event.name, line |-> line, info_is_dict |-> TRUE]

\* what an event of the visit does to the scopes: a parameter and an
\* assigned name are added to 'defined' of the scope, a name that is loaded
\* to 'used'; other nodes add nothing
Touched(event) ==
    CASE event.kind \in {"param", "assign"} -> "defined"
      [] event.kind = "load" -> "used"
      [] OTHER -> "none"

RECURSIVE VisitFrom(_, _, _)
\* PythonScopeAnalyzer.visit over the nodes of a file (329-401), from the
\* k-th event on: set.add raises TypeError for an item that is unhashable
VisitFrom(events, k, scopes) ==
    IF k > Len(events) THEN [raised |-> FALSE, scopes |-> scopes]
    ELSE IF Touched(events[k]) = "none" THEN VisitFrom(events, k + 1, scopes)
    ELSE IF ~Hashable(NameItem(events[k], k)) THEN [raised |-> TRUE, scopes |-> scopes]
    ELSE VisitFrom(events, k + 1,
            [scopes EXCEPT ![events[k].scope][Touched(events[k])] =
                                @ \cup {NameItem(events[k], k)}])

\* the scopes of the model
ScopeNames == {"module", "function:f"}

\* PythonScopeAnalyzer.analyze (322-327)
AnalyzeScopes(events) ==
    VisitFrom(events, 1, [sc \in ScopeNames |-> [defined |-> {}, used |-> {}]])

\* VariableChecker._is_intentionally_unused (152-158)
IsIntentionallyUnused(var_name) ==
    var_name \in {"_y", "unused", "ignore", "dummy", "unused_z"}

\* VariableChecker._check_python_variables (57-80): the unused_variable
\* issues, for scopes that analyze has returned
UnusedIssues(scopes) ==
    {[type |-> "unused_variable", name |-> item.name, line |-> item.line] :
        item \in UNION {{d \in scopes[sc].defined \ scopes[sc].used :
                           ~IsIntentionallyUnused(d.name)} : sc \in ScopeNames}}

\* VariableChecker.check (23-55) of a Python file: an exception of
\* _check_python_variables is logged and the issues stay empty
CheckVariablesOf(events) ==
    IF AnalyzeScopes(events).raised THEN [failed |-> TRUE, issues |-> {}]
    ELSE [failed |-> FALSE, issues |-> UnusedIssues(AnalyzeScopes(events).scopes)]

CheckVariables ==
    /\ fpc = "ready"
    /\ ret' = CheckVariablesOf(arg)
    /\ fpc' = "checked"
    /\ UNCHANGED <<parserVars, reviewVars, engineVars, loaderVars, held, last_op, arg>>

\* ----------------------------------------------------------- GitAnalyzer
\* str.startswith('+++') and str.startswith('---'); the text of the lines
\* '+text' and '-text' of the model does not begin with two more signs
StartsWithPlus3(l) == l.k \in {"newpath", "newnull"}
StartsWithMinus3(l) == l.k \in {"oldpath", "oldnull"}

\* GitAnalyzer._parse_diff, 93-103: the file of a 'diff --git' line that
\* splits into four parts or more
AnalyzerFile(l) ==
    [old_path |-> l.path, new_path |-> l.path, changes |-> 0,
     added_lines |-> 0, removed_lines |-> 0]

\* GitAnalyzer._parse_diff, 84-130: one pass of the loop.  current_file is
\* the empty list for None and the list of the one file otherwise.
AnalyzerLine(st, l) ==
    IF StartsWithDiffGit(l)
    THEN [files |-> st.files \o st.current_file,
          current_file |-> IF l.k = "diffgit" THEN <<AnalyzerFile(l)>>
                           ELSE st.current_file]
    ELSE IF StartsWithAt(l) /\ st.current_file # <<>>
    THEN [st EXCEPT !.current_file[1].changes = @ + 1]
    ELSE IF st.current_file # <<>> /\ st.current_file[1].changes > 0
    THEN IF l.k # "empty" /\ FirstChar(l) = "+" /\ ~StartsWithPlus3(l)
         THEN [st EXCEPT !.current_file[1].added_lines = @ + 1]
         ELSE IF l.k # "empty" /\ FirstChar(l) = "-" /\ ~StartsWithMinus3(l)
         THEN [st EXCEPT !.current_file[1].removed_lines = @ + 1]
         ELSE st
    ELSE st

RECURSIVE AnalyzerParseFrom(_, _)
\* GitAnalyzer._parse_diff, 84: the loop over the lines
AnalyzerParseFrom(ls, st) ==
    IF ls = <<>> THEN st ELSE AnalyzerParseFrom(Tail(ls), AnalyzerLine(st, Head(ls)))

\* GitAnalyzer._parse_diff (80-136): the files it returns
AnalyzerParseDiff(ls) ==
    LET st == AnalyzerParseFrom(ls, [files |-> <<>>, current_file |-> <<>>])
    IN st.files \o st.current_file

\* ---------------------------------------------------------- CoreAnalyzer
\* the checkers in the order in which analyze_file runs them (101-106)
CheckerNames ==
    <<"complexity", "security", "style", "variable", "error_handling", "naming">>

\* _run_complexity_analysis and the five methods after it (162-215), were an
\* exception of the checker to empty the issues gathered so far
RunCheckerLosing(analysis, file, checker_name) ==
    IF checker_name \in file.raises
    THEN [analysis EXCEPT !.issues = <<>>, !.ran = Append(@, checker_name)]
    ELSE [analysis EXCEPT !.issues = @ \o file.found[checker_name],
                          !.ran = Append(@, checker_name)]

\* _run_complexity_analysis and the five methods after it (162-215): the
\* issues of the checker are appended to those of the result; an exception
\* of the checker is logged and the result stays as it is
RunChecker(analysis, file, checker_name) ==
    IF checker_name \in file.raises
    THEN [analysis EXCEPT !.ran = Append(@, checker_name)]
    ELSE [analysis EXCEPT !.issues = @ \o file.found[checker_name],
                          !.ran = Append(@, checker_name)]

RECURSIVE RunChecks(_, _, _)
\* analyze_file, 101-106: the checkers that are left to run
RunChecks(analysis, file, checkers) ==
    IF checkers = <<>> THEN analysis
    ELSE RunChecks(RunChecker(analysis, file, Head(checkers)), file, Tail(checkers))

\* CoreAnalyzer.analyze_file (60-116) of a file that has content: the issues
\* of the AnalysisResult, and the checkers that were run
AnalyzeFileOf(file) == RunChecks([issues |-> <<>>, ran |-> <<>>], file, CheckerNames)

\* CoreAnalyzer.analyze (255-277) of a list of files: one pass of the loop
AnalyzeNextFile ==
    /\ fpc = "analyze"
    /\ Len(ret) < Len(arg)
    /\ ret' = Append(ret, AnalyzeFileOf(arg[Len(ret) + 1]))
    /\ UNCHANGED <<parserVars, reviewVars, engineVars, loaderVars, held, last_op, arg, fpc>>

\* CoreAnalyzer.analyze, 277: the results are converted and returned
AnalyzeReturn ==
    /\ fpc = "analyze"
    /\ Len(ret) = Len(arg)
    /\ fpc' = "analyzed"
    /\ UNCHANGED <<parserVars, reviewVars, engineVars, loaderVars, held, last_op, arg, ret>>

AnalyzeNext ==
    \/ AnalyzeNextFile
    \/ AnalyzeReturn

\* -------------------------------------------------------------- the runs
\* args.config is None
NoConfigPath == "none"
\* ConfigLoader.default_config_path (config_loader.py:20)
DefaultConfigPath == "default"

\* ConfigLoader._load_config_file (config_loader.py:65-89) raises for a file
\* that does not exist and for a text that is not YAML
LoaderFileRaises(path) == ~Exists(path) \/ ParseFileRaises(path)

\* the sections _validate_config requires (config_loader.py:122)
RequiredSections == {"file_types", "languages", "severity"}
\* valid_severities (config_loader.py:156)
ValidSeverities == {"error", "warning", "info"}

\* ConfigLoader._merge_configs (config_loader.py:91-111); the sections are
\* the dicts of the files, and what a section holds holds no dict
LoaderMergeConfigs(default, custom) ==
    [k \in DOMAIN default \cup DOMAIN custom |->
        IF k \notin DOMAIN custom THEN default[k]
        ELSE IF k \in DOMAIN default /\ k \in RequiredSections
        THEN Update(default[k], custom[k])
        ELSE custom[k]]

\* ConfigLoader._validate_config (config_loader.py:113-174) raises; every
\* section of the model is a dict and limits is absent
LoaderValidateRaises(cfg) ==
    \/ \E section \in RequiredSections : section \notin DOMAIN cfg
    \/ \E severity_level \in DOMAIN cfg.severity : severity_level \notin ValidSeverities

\* ConfigLoader.load (config_loader.py:22-55) raises ConfigurationError
LoaderLoadRaises(config_path) ==
    IF config_path # NoConfigPath
    THEN IF LoaderFileRaises(config_path) \/ LoaderFileRaises(DefaultConfigPath)
         THEN TRUE
         ELSE LoaderValidateRaises(LoaderMergeConfigs(ParseFile(DefaultConfigPath),
                                                      ParseFile(config_path)))
    ELSE IF LoaderFileRaises(DefaultConfigPath) THEN TRUE
         ELSE LoaderValidateRaises(ParseFile(DefaultConfigPath))

\* what main prints and returns (main.py:81-120): an exception of the
\* loader or of the analysis is logged and gives 1, a report of the issues
\* gives 0
MainResultIgnoringErrors(load_raises, analysis_raises, issues) ==
    [exit_code |-> 0, printed |-> TRUE,
     issues |-> IF load_raises \/ analysis_raises THEN 0 ELSE issues]
MainResult(load_raises, analysis_raises, issues) ==
    IF load_raises \/ analysis_raises
    THEN [exit_code |-> 1, printed |-> FALSE, issues |-> 0]
    ELSE [exit_code |-> 0, printed |-> TRUE, issues |-> issues]

\* main (main.py:79-120).  What the analyzer finds in the files under
\* review, or that it raises, is an input.
Main ==
    /\ lpc = "new"
    /\ \E config_path \in {NoConfigPath, ChildPath}, analysis_raises \in BOOLEAN,
          issues \in 0..MaxFindings :
          outcome' = [called |-> TRUE, by |-> "main",
                      config_failed |-> LoaderLoadRaises(config_path),
                      result |-> MainResult(LoaderLoadRaises(config_path),
                                            analysis_raises, issues)]
    /\ lpc' = "exited"
    /\ UNCHANGED <<extraVars, parserVars, reviewVars, engineVars,
                   cfs, env, loaded, merge_call, messages, resolved, updates>>

\* CoreAnalyzer.__init__ (core_analyzer.py:47-58) hands its config to
\* ComplexityChecker.__init__, which calls config.get (complexity_checker.py:
\* 24): a dict has it, a ConfigSchema raises AttributeError
CoreAnalyzerRaises(config_type) == config_type # "dict"

\* the CIResult of _run_analysis (runner.py:338-401): an exception gives
\* exit code 2 and an error message.  The issues of the model stay under the
\* thresholds of _check_failure_conditions.
CIResult(exception, issues) ==
    IF exception
    THEN [success |-> FALSE, exit_code |-> 2, total_issues |-> 0, error_message |-> TRUE]
    ELSE [success |-> TRUE, exit_code |-> 0, total_issues |-> issues,
          error_message |-> FALSE]

\* CIRunner._run_analysis (runner.py:334-402) after create_config_manager,
\* which is ManagerInit: _run_core_analysis gives the ConfigSchema of the
\* manager to CoreAnalyzer
RunAnalysis ==
    /\ lpc \in {"ready", "raised"}
    /\ \E issues \in 0..MaxFindings :
          outcome' = [called |-> TRUE, by |-> "ci",
                      config_failed |-> \/ loaded.from \in {"not found", "exception"}
                                        \/ loaded.errors # {},
                      result |-> CIResult(lpc = "raised" \/ CoreAnalyzerRaises("ConfigSchema"),
                                          issues)]
    /\ lpc' = "exited"
    /\ UNCHANGED <<extraVars, parserVars, reviewVars, engineVars,
                   cfs, env, loaded, merge_call, messages, resolved, updates>>

RunNext ==
    \/ Main
    \/ ManagerInit
    \/ RunAnalysis

\* ----------------------------------------------------------- the inputs
RECURSIVE SeqsUpTo(_, _)
\* the sequences over S of length at most n
SeqsUpTo(S, n) ==
    IF n = 0 THEN {<<>>}
    ELSE LET shorter == SeqsUpTo(S, n - 1)
         IN shorter \cup {Append(s, x) : s \in {t \in shorter : Len(t) = n - 1}, x \in S}

Starts == 0..MaxStart

\* the lines of hunk bodies, for the claims on line numbering:
\* '@@ -s +s @@' and '@@ -s +s,n @@'
HunkTokens ==
    {DiffGit("a.py"), Plus, Minus, Space, Empty, NoNewline,
     Hdr(MaxStart, NoCount, MaxStart, NoCount),
     Hdr(MaxStart, NoCount, MaxStart, MaxCount)}

\* the lines of file sections, for the claims on the structure of a diff
FileTokens ==
    {DiffGit("a.py"), DiffGitNoPath, DelFile, NewPath("b.py"),
     Hdr(1, NoCount, 1, NoCount), HdrBad, HdrHuge, Plus}

ParserInit(input) ==
    /\ lines = input
    /\ i = 1
    /\ pc = "parse_diff"
    /\ files = <<>>
    /\ cur = NewCur
    /\ hunk = NoHunk
    /\ raised = FALSE

\* the parser alone: no review is under way
NoReview ==
    /\ fs = [d \in Dirs |-> Missing]
    /\ repo_path = NoRepoPath
    /\ fidx = 0
    /\ all_issues = <<>>
    /\ total_lines_reviewed = 0
    /\ last = NoCall

vars == <<parserVars, reviewVars, engineVars, loaderVars, extraVars>>

InitHunk == \E input \in SeqsUpTo(HunkTokens, MaxLen) : ParserInit(input) /\ NoReview /\ NoEngine /\ NoLoader /\ NoExtra
SpecHunk == InitHunk /\ [][ParseNext]_vars

InitFile == \E input \in SeqsUpTo(FileTokens, MaxLen) : ParserInit(input) /\ NoReview /\ NoEngine /\ NoLoader /\ NoExtra
SpecFile == InitFile /\ [][ParseNext]_vars

\* the lines of the diffs under focused review
FocusTokens ==
    {DiffGit("a.py"), DelFile, Binary, Plus, Space}
    \cup {Hdr(s, NoCount, s, NoCount) : s \in Starts}

\* the contents of a file: missing, empty, or a text with findings
Contents ==
    {Missing, EmptyFile}
    \cup {TextFile(ls) : ls \in SeqsUpTo(1..MaxFindingLine, MaxFindings)}

InitFocus ==
    /\ \E input \in SeqsUpTo(FocusTokens, MaxFocusLen) : ParserInit(input)
    /\ fs \in [Dirs -> Contents]
    /\ repo_path \in RepoPaths
    /\ fidx = 1
    /\ all_issues = <<>>
    /\ total_lines_reviewed = 0
    /\ last = NoCall
    /\ NoEngine
    /\ NoLoader
    /\ NoExtra
SpecFocus == InitFocus /\ [][ReviewNext]_vars

\* the rules registered with the engine
Registered ==
    <<[name |-> "security", rules |-> <<"secrets", "sql">>],
      [name |-> "style", rules |-> <<"line_length">>]>>

RuleKeys == {<<"security", "secrets">>, <<"security", "sql">>, <<"style", "line_length">>}

\* the configurations of a rule
RuleConfigs ==
    {[DefaultRuleConfig EXCEPT !.enabled = e, !.file_types = ft] :
        e \in BOOLEAN, ft \in {NoFileTypes, <<PYTHON>>}}
    \cup {[DefaultRuleConfig EXCEPT !.ignore_patterns = <<"tests/*">>,
                                    !.options = [max_line_length |-> 80]]}

\* the configurations of the two checkers
SecurityConfigs ==
    {[enabled |-> e, severity_override |-> NoSeverity, rules |-> r] :
        e \in BOOLEAN,
        r \in {rs \in Dicts({"secrets", "sql"}, RuleConfigs) :
                 "sql" \in DOMAIN rs => rs["sql"].file_types = NoFileTypes}}
StyleConfigs ==
    {[enabled |-> e, severity_override |-> o, rules |-> r] :
        e \in BOOLEAN, o \in {NoSeverity, ERROR},
        r \in Dicts({"line_length"}, {DefaultRuleConfig,
                                      [DefaultRuleConfig EXCEPT !.enabled = FALSE]})}

\* the checkers sections of the configurations
CheckersConfigs ==
    {<<>>}
    \cup {[n \in {"security"} |-> c] : c \in SecurityConfigs}
    \cup {[n \in {"style"} |-> c] : c \in StyleConfigs}
    \cup {[n \in {"security", "style"} |-> IF n = "security" THEN c ELSE d] :
            c \in SecurityConfigs, d \in StyleConfigs}

\* ignore_patterns and include_patterns
FilePatterns ==
    {[ignore |-> <<>>, include |-> <<>>],
     [ignore |-> <<[pattern |-> "tests", type |-> "path"]>>, include |-> <<>>],
     [ignore |-> <<>>, include |-> <<"*.py">>]}

InitEngine ==
    /\ \E input \in {<<>>} : ParserInit(input)
    /\ NoReview
    /\ \E ch \in CheckersConfigs, th \in {INFO, WARNING},
          mx \in {SmallMaxIssues, 100}, fp \in FilePatterns,
          ft \in {<<>>, [t \in {PYTHON} |-> DefaultFileTypeConfig]} :
          config = [checkers |-> ch, severity_threshold |-> th,
                    max_issues_per_run |-> mx, ignore_patterns |-> fp.ignore,
                    include_patterns |-> fp.include, file_types |-> ft]
    /\ registry = Registered
    /\ behaviour \in {b \in [RuleKeys -> {"findings", "raise"}] :
                        b[<<"security", "secrets">>] = "findings"}
    /\ epc = "idle"
    /\ efile = ""
    /\ eci = 1
    /\ eri = 1
    /\ all_results = <<>>
    /\ rules_executed = 0
    /\ executed = <<>>
    /\ result = <<>>
    /\ calls = 0
    /\ run_findings = 0
    /\ NoLoader
    /\ NoExtra
SpecEngine == InitEngine /\ [][EngineNext]_vars

\* ------------------------------------------------- the claims on the parser

\* the hunks that _parse_hunk has returned so far
EmittedHunks ==
    Range(cur.hunks) \cup UNION {Range(f.hunks) : f \in Range(files)}

\* the DiffLines that the parser has built so far
AllDiffLines ==
    Range(hunk.lines) \cup UNION {Range(h.lines) : h \in EmittedHunks}

\* C2: every DiffLine the parser builds has the line numbers of its kind:
\* an Added line has new_line_number and no old_line_number, a Removed line
\* has old_line_number and no new_line_number, a Context line has both.
C2_LineNumbersOfKind ==
    \A l \in AllDiffLines :
        /\ l.change_type \in {ADDED, REMOVED, MODIFIED}
        /\ l.change_type = ADDED =>
              l.new_line_number # None /\ l.old_line_number = None
        /\ l.change_type = REMOVED =>
              l.old_line_number # None /\ l.new_line_number = None
        /\ l.change_type = MODIFIED =>
              l.old_line_number # None /\ l.new_line_number # None

\* a returned file has a hunk with an Added, a Removed and a Context line
C2_Witness ==
    /\ pc = "done"
    /\ \E f \in Range(files) : \E h \in Range(f.hunks) :
          \A kind \in {ADDED, REMOVED, MODIFIED} :
              \E l \in Range(h.lines) : l.change_type = kind

RECURSIVE OldNumbers(_)
\* the old line numbers of the lines of a hunk, in order
OldNumbers(ls) ==
    IF ls = <<>> THEN <<>>
    ELSE (IF Head(ls).old_line_number # None
          THEN <<Head(ls).old_line_number>> ELSE <<>>) \o OldNumbers(Tail(ls))

RECURSIVE NewNumbers(_)
\* the new line numbers of the lines of a hunk, in order
NewNumbers(ls) ==
    IF ls = <<>> THEN <<>>
    ELSE (IF Head(ls).new_line_number # None
          THEN <<Head(ls).new_line_number>> ELSE <<>>) \o NewNumbers(Tail(ls))

\* start, start + 1, ..., start + count - 1
Consecutive(start, count) == [j \in 1..count |-> start + j - 1]

\* C3: every hunk the parser emits has line-number continuity: its old line
\* numbers are old_start .. old_start + old_count - 1 and its new line
\* numbers are new_start .. new_start + new_count - 1, in order.
C3_Continuity ==
    \A h \in EmittedHunks :
        /\ OldNumbers(h.lines) = Consecutive(h.old_start, h.old_count)
        /\ NewNumbers(h.lines) = Consecutive(h.new_start, h.new_count)

\* C4: every line of a hunk body, the empty line included, yields exactly
\* one DiffLine: '+' is Added at the new counter, '-' is Removed at the old
\* counter, any other line is Context at both counters; the counters that
\* were assigned advance by one.
C4_OneDiffLinePerLine ==
    [][ParseHunkLine =>
          /\ Len(hunk'.lines) = Len(hunk.lines) + 1
          /\ LET made == hunk'.lines[Len(hunk'.lines)]
             IN CASE Line.k # "empty" /\ FirstChar(Line) = "+" ->
                       /\ made.change_type = ADDED
                       /\ made.new_line_number = hunk.new_line
                       /\ hunk'.new_line = hunk.new_line + 1
                       /\ hunk'.old_line = hunk.old_line
                  [] Line.k # "empty" /\ FirstChar(Line) = "-" ->
                       /\ made.change_type = REMOVED
                       /\ made.old_line_number = hunk.old_line
                       /\ hunk'.old_line = hunk.old_line + 1
                       /\ hunk'.new_line = hunk.new_line
                  [] OTHER ->
                       /\ made.change_type = MODIFIED
                       /\ made.old_line_number = hunk.old_line
                       /\ made.new_line_number = hunk.new_line
                       /\ hunk'.old_line = hunk.old_line + 1
                       /\ hunk'.new_line = hunk.new_line + 1]_vars

\* A unified diff as git writes it, over the lines of HunkTokens.  A body
\* line of the old file is '-', ' ' or an empty line (a blank context line
\* under diff.suppressBlankEmpty); one of the new file is '+', ' ' or an
\* empty line.  '\ No newline at end of file' follows a body line and counts
\* for neither file.
IsBodyLine(l) == l.k \in {"plus", "minus", "space", "empty", "nonewline"}

RECURSIVE ValidBody(_, _, _, _)
\* ls starts with a hunk body that has o old and n new lines left to come;
\* prev: the line before is a body line
ValidBody(ls, o, n, prev) ==
    IF ls = <<>> \/ ~IsBodyLine(Head(ls))
    THEN /\ o = 0
         /\ n = 0
         /\ \/ ls = <<>>
            \/ /\ Head(ls).k = "hdr"
               /\ ValidBody(Tail(ls), CountOf(Head(ls).oc), CountOf(Head(ls).nc), FALSE)
    ELSE CASE Head(ls).k = "plus" -> n > 0 /\ ValidBody(Tail(ls), o, n - 1, TRUE)
           [] Head(ls).k = "minus" -> o > 0 /\ ValidBody(Tail(ls), o - 1, n, TRUE)
           [] Head(ls).k = "nonewline" -> prev /\ ValidBody(Tail(ls), o, n, FALSE)
           [] OTHER -> o > 0 /\ n > 0 /\ ValidBody(Tail(ls), o - 1, n - 1, TRUE)

\* one file section: the file header, then at least one hunk
ValidDiff(ls) ==
    /\ Len(ls) >= 2
    /\ ls[1].k = "diffgit"
    /\ ls[2].k = "hdr"
    /\ ls[2].digits <= IntMaxStrDigits
    /\ ValidBody(Tail(Tail(ls)), CountOf(ls[2].oc), CountOf(ls[2].nc), FALSE)

\* C5: in every hunk with new_count > 0 parsed from a valid unified diff, the
\* last new_line_number assigned is new_start + new_count - 1.
C5_LastNewLine ==
    (pc = "done" /\ ValidDiff(lines)) =>
        \A f \in Range(files) : \A h \in Range(f.hunks) :
            h.new_count > 0 =>
                LET nums == NewNumbers(h.lines)
                IN /\ nums # <<>>
                   /\ nums[Len(nums)] = h.new_start + h.new_count - 1

\* C6: parse_diff never raises: no input makes an exception leave it.
C6_NeverRaises == pc # "raised"

\* the index of the file header that opens the section of line j (0: none)
SectionOf(j) ==
    LET before == {s \in 1..(j - 1) : StartsWithDiffGit(lines[s])}
    IN IF before = {} THEN 0 ELSE CHOOSE s \in before : \A t \in before : t <= s

\* C7: when a hunk header of a file section cannot be parsed, every
\* well-formed hunk header that follows it in the same section still gives a
\* hunk of that file in the result, and every later file section with paths
\* gives a file.
C7_OnlyBadHunkSkipped ==
    pc = "done" =>
        /\ \A b \in 1..Len(lines) : \A j \in (b + 1)..Len(lines) :
              ( /\ lines[b].k = "hdrbad"
                /\ lines[j].k = "hdr"
                /\ SectionOf(b) # 0
                /\ SectionOf(b) = SectionOf(j)
                /\ lines[SectionOf(b)].k = "diffgit" )
              => \E f \in Range(files) : \E h \in Range(f.hunks) : h.context = j
        /\ Len(files) >= Cardinality({s \in 1..Len(lines) : lines[s].k = "diffgit"})

\* ---------------------------------------------- the claims on the review
\* C8: the changed-line mapping of a file gives as 'added' the new line
\* numbers of all its Added lines and as 'removed' the old line numbers of
\* all its Removed lines, whatever the numbers are.
C8_ChangedLinesExact ==
    \A n \in 1..Len(files) :
        (pc = "done" /\ fidx = n + 1 /\ last.analysed) =>
            /\ last.added_lines =
                  {l.new_line_number :
                     l \in {x \in LinesOfFile(files[n]) : x.change_type = ADDED}}
            /\ last.removed_lines =
                  {l.old_line_number :
                     l \in {x \in LinesOfFile(files[n]) : x.change_type = REMOVED}}

RECURSIVE OnLines(_, _)
\* the findings of a list whose line is in a set, in order
OnLines(issues, S) ==
    IF issues = <<>> THEN <<>>
    ELSE (IF Head(issues).line \in S THEN <<Head(issues)>> ELSE <<>>)
         \o OnLines(Tail(issues), S)

\* C1: the findings reported for a reviewed file are exactly the findings of
\* the checkers for it whose line is in the Added-line set of the file.
C1_FocusFilterExact ==
    last.analysed =>
        [j \in 1..Len(last.issues) |->
            [type |-> last.issues[j].issue_type, line |-> last.issues[j].line_number]]
        = OnLines(last.checker_issues, last.added_lines)

\* C9: the findings of a reviewed file are computed from the content that
\* the content accessor returned for its new path.
C9_AnalysedContentIsAccessed ==
    last.analysed => last.read = last.file_content

\* ------------------------------------------ the claims on the rule engine
\* the checker is disabled at the top level of the configuration
CheckerDisabled(checker_name) ==
    /\ checker_name \in DOMAIN config.checkers
    /\ ~config.checkers[checker_name].enabled

\* the rule is explicitly disabled in the configuration
RuleDisabled(checker_name, rule_name) ==
    /\ checker_name \in DOMAIN config.checkers
    /\ rule_name \in DOMAIN config.checkers[checker_name].rules
    /\ ~config.checkers[checker_name].rules[rule_name].enabled

\* C10: a rule whose checker is disabled at the top level, or that is itself
\* explicitly disabled, is not executed and contributes no finding, for
\* every file.
C10_DisabledRulesDoNotFire ==
    /\ \A e \in Range(executed) :
          /\ ~CheckerDisabled(e.checker_name)
          /\ ~RuleDisabled(e.checker_name, e.rule_name)
    /\ \A r \in Range(all_results) \cup Range(result) :
          /\ ~CheckerDisabled(r.checker_name)
          /\ ~RuleDisabled(r.checker_name, r.rule_name)

\* a call has returned findings of an enabled rule while a checker of the
\* registry is disabled and a rule of the enabled checker is disabled
C10_Witness ==
    /\ epc = "returned"
    /\ result # <<>>
    /\ \E c \in Range(registry) : CheckerDisabled(c.name)
    /\ \E c \in Range(registry) :
          /\ ~CheckerDisabled(c.name)
          /\ \E r \in Range(c.rules) : RuleDisabled(c.name, r)
          /\ \E e \in Range(executed) : e.checker_name = c.name

\* ------------------------------------------------- the configuration inputs
\* the rule "secrets" of a checkers section as a file writes it
RawRule(sev, fts) ==
    [security |-> [rules |-> [secrets |-> [severity |-> sev, file_types |-> fts]]]]

\* the checkers sections of the files
RawCheckers ==
    {[security |-> [enabled |-> FALSE]],
     [security |-> [severity_override |-> ERROR]],
     [security |-> [rules |-> [secrets |-> [severity |-> ERROR]]]],
     RawRule(ERROR, <<PYTHON>>),
     RawRule(INFO, <<PYTHON>>),
     RawRule("fatal", <<PYTHON>>),
     [security |-> [rules |-> [nosuch |-> [severity |-> ERROR,
                                           file_types |-> <<PYTHON>>]]]],
     [nosuch |-> [enabled |-> TRUE]]}

\* what a file sets, extends apart
RawBodies ==
    {<<>>}
    \cup {[severity_threshold |-> s] : s \in {ERROR, SUGGESTION, "fatal"}}
    \cup {[fail_on_severity |-> WARNING], [max_issues_per_run |-> 50]}
    \cup {[checkers |-> c] : c \in RawCheckers}
    \cup {[ignore_patterns |-> <<[pattern |-> "*.log"]>>,
           include_patterns |-> <<"*.py">>],
          [ignore_patterns |-> <<[pattern |-> "*.log"], [pattern |-> "*.log"]>>,
           include_patterns |-> <<"*.py", "*.py">>]}

ConfigFile(raw) == [st |-> "ok", raw |-> raw]
MissingFile == [st |-> "missing", raw |-> <<>>]
InvalidFile == [st |-> "invalid", raw |-> <<>>]

\* the file given to ConfigManager
ChildFiles ==
    {MissingFile, InvalidFile}
    \cup {ConfigFile(b @@ e) :
            b \in RawBodies,
            e \in {<<>>, [extends |-> <<"p1">>], [extends |-> <<"p1", "p2">>]}}

\* the files it extends; the first can extend the child in turn
ParentFiles == {MissingFile} \cup {ConfigFile(b) : b \in RawBodies}
FirstParentFiles == ParentFiles \cup {ConfigFile([extends |-> <<ChildPath>>])}

\* the overrides of the environment
EnvDicts == {<<>>, [severity_threshold |-> WARNING]}

InitLoad ==
    /\ \E input \in {<<>>} : ParserInit(input)
    /\ NoReview
    /\ \E c \in ChildFiles, p1 \in FirstParentFiles, p2 \in ParentFiles :
          cfs = [child |-> c, p1 |-> p1, p2 |-> p2]
    /\ env \in EnvDicts
    /\ lpc = "new"
    /\ loaded = NoLoad
    /\ merge_call = NoMerge
    /\ messages = NoMessages
    /\ resolved = NoResolve
    /\ updates = 0
    /\ outcome = NoOutcome
    /\ NoExtra
    /\ config = ConfigSchema
    /\ registry = Registered
    /\ behaviour = [k \in RuleKeys |-> "findings"]
    /\ epc = "off"
    /\ efile = ""
    /\ eci = 1
    /\ eri = 1
    /\ all_results = <<>>
    /\ rules_executed = 0
    /\ executed = <<>>
    /\ result = <<>>
    /\ calls = 0
    /\ run_findings = 0
SpecLoad == InitLoad /\ [][LoadNext]_vars

\* the files ConfigLoader reads: the default rules, and custom files
DefaultRules ==
    [file_types |-> <<>>, languages |-> <<>>, severity |-> [error |-> "on"]]
DefaultRulesFiles ==
    {MissingFile, ConfigFile(DefaultRules),
     ConfigFile([file_types |-> <<>>, severity |-> <<>>])}
CustomFiles ==
    {ConfigFile([severity |-> [fatal |-> "on"]]),
     ConfigFile([severity |-> [warning |-> "on"]])}

InitRun ==
    /\ \E input \in {<<>>} : ParserInit(input)
    /\ NoReview
    /\ \E c \in CustomFiles \cup {MissingFile, InvalidFile}
                   \cup {ConfigFile(b) : b \in RawBodies},
          d \in DefaultRulesFiles :
          cfs = [child |-> c, default |-> d]
    /\ env \in EnvDicts
    /\ lpc = "new"
    /\ loaded = NoLoad
    /\ merge_call = NoMerge
    /\ messages = NoMessages
    /\ resolved = NoResolve
    /\ updates = 0
    /\ outcome = NoOutcome
    /\ NoExtra
    /\ config = ConfigSchema
    /\ registry = Registered
    /\ behaviour = [k \in RuleKeys |-> "findings"]
    /\ epc = "off"
    /\ efile = ""
    /\ eci = 1
    /\ eri = 1
    /\ all_results = <<>>
    /\ rules_executed = 0
    /\ executed = <<>>
    /\ result = <<>>
    /\ calls = 0
    /\ run_findings = 0
SpecRun == InitRun /\ [][RunNext]_vars

\* the files a ConfigManager is made for
ManagerFiles ==
    {MissingFile, ConfigFile(<<>>),
     ConfigFile([checkers |-> RawRule(ERROR, <<PYTHON>>)]),
     ConfigFile([checkers |-> [style |-> [enabled |-> FALSE]]])}

InitManager ==
    /\ \E input \in {<<>>} : ParserInit(input)
    /\ NoReview
    /\ \E c \in ManagerFiles : cfs = [child |-> c]
    /\ env \in EnvDicts
    /\ lpc = "new"
    /\ loaded = NoLoad
    /\ merge_call = NoMerge
    /\ messages = NoMessages
    /\ resolved = NoResolve
    /\ updates = 0
    /\ outcome = NoOutcome
    /\ NoExtra
    /\ config = ConfigSchema
    /\ registry = Registered
    /\ behaviour = [k \in RuleKeys |-> "findings"]
    /\ epc = "off"
    /\ efile = ""
    /\ eci = 1
    /\ eri = 1
    /\ all_results = <<>>
    /\ rules_executed = 0
    /\ executed = <<>>
    /\ result = <<>>
    /\ calls = 0
    /\ run_findings = 0
SpecManager == InitManager /\ [][ManagerNext]_vars

\* no engine, no manager, no parser: a function is under study
NoProgram ==
    /\ \E input \in {<<>>} : ParserInit(input)
    /\ NoReview
    /\ NoEngine
    /\ NoLoader
    /\ held = NoHeld
    /\ last_op = NoOp

\* valid configurations: the default one and what files give
Schemas ==
    {CreateDefaultConfig}
    \cup {[ConvertToSchema(b) EXCEPT !.max_issues_per_run = mx, !.fail_on_severity = f] :
            b \in RawBodies, mx \in {50, 100}, f \in {ERROR, WARNING}}

InitRoundTrip ==
    /\ NoProgram
    /\ arg \in Schemas
    /\ ret = <<>>
    /\ fpc = "ready"
SpecRoundTrip == InitRoundTrip /\ [][RoundTripNext]_vars

\* the metrics of a function: at the thresholds, one metric over its
\* threshold, all of them over
FunctionMetrics ==
    {[m \in Range(MetricNames) |-> Threshold(m) + (IF m \in over THEN 1 ELSE 0)] :
        over \in {{}, Range(MetricNames)} \cup {{m} : m \in Range(MetricNames)}}

\* the function definitions of a file: the k-th begins at line k; two
\* methods of different classes can have the same name
FunctionNodes ==
    {[k \in 1..Len(defs) |-> defs[k] @@ [line_start |-> k]] :
        defs \in SeqsUpTo({[name |-> n] @@ fm : n \in {"run", "load"}, fm \in FunctionMetrics},
                        MaxFunctions)}

InitComplexity ==
    /\ NoProgram
    /\ arg \in FunctionNodes
    /\ ret = <<>>
    /\ fpc = "ready"
SpecComplexity == InitComplexity /\ [][CheckComplexity]_vars

\* the RuleConfig of an executed rule, if the configuration has one
AllowList(e) ==
    IF HasRuleConfig(config, e.checker_name, e.rule_name)
    THEN config.checkers[e.checker_name].rules[e.rule_name].file_types
    ELSE NoFileTypes

\* C11: a rule that declares a non-empty allow-list of file types does not
\* fire for a file whose type is not in the list, a file of undetermined
\* type included.
C11_AllowListRespected ==
    \A e \in Range(executed) :
        AllowList(e) \notin {NoFileTypes, <<>>}
            => GetFileType(efile) \in Range(AllowList(e))

\* C12: once the findings accumulated in a run have reached
\* max_issues_per_run, no further rule is executed in that run, neither for
\* the current file nor for a file analysed afterwards.
C12_CapStopsTheRun ==
    [][Len(executed') > Len(executed)
          => run_findings < config.max_issues_per_run]_vars

\* C13: for the same file, rules and configuration otherwise, the call with
\* severity_threshold = warning returns no more findings than the call with
\* severity_threshold = info; the list a call returns is that of
\* ExecuteRulesForFile.
C13_ThresholdMonotone ==
    epc = "returned" =>
        /\ result = ExecuteRulesForFile(config, efile)
        /\ Len(ExecuteRulesForFile([config EXCEPT !.severity_threshold = WARNING], efile))
              <= Len(ExecuteRulesForFile([config EXCEPT !.severity_threshold = INFO], efile))

\* a call with the threshold warning has returned findings, fewer than the
\* same call returns with the threshold info
C13_Witness ==
    /\ epc = "returned"
    /\ config.severity_threshold = WARNING
    /\ result # <<>>
    /\ result = ExecuteRulesForFile(config, efile)
    /\ Len(result) <
          Len(ExecuteRulesForFile([config EXCEPT !.severity_threshold = INFO], efile))

\* C20: executing the rules for a file does not modify the configuration:
\* the options of every RuleConfig are the same after a step of
\* execute_rules_for_file as before it.
C20_ConfigNotModified ==
    [][config' = config]_vars

\* what an override dict says of a checker and of a rule
OverrideChecker(o, c) ==
    IF "checkers" \in DOMAIN o /\ c \in DOMAIN o.checkers THEN o.checkers[c] ELSE <<>>
OverrideRule(o, c, r) ==
    IF "rules" \in DOMAIN OverrideChecker(o, c) /\ r \in DOMAIN OverrideChecker(o, c).rules
    THEN OverrideChecker(o, c).rules[r] ELSE <<>>

\* C14: merging a child over a parent completes without error and changes
\* only what the child sets: a key the child sets has the child's value,
\* and a checker's severity_override, a rule's severity and a rule's
\* file-type list that the child does not mention keep the parent's value.
C14_MergeChangesOnlyWhatIsSet ==
    merge_call.called =>
        /\ ~merge_call.raised
        /\ "severity_threshold" \in DOMAIN merge_call.override
              => config.severity_threshold = merge_call.override.severity_threshold
        /\ \A c \in DOMAIN merge_call.base.checkers :
              /\ c \in DOMAIN config.checkers
              /\ "enabled" \in DOMAIN OverrideChecker(merge_call.override, c)
                    => config.checkers[c].enabled
                          = OverrideChecker(merge_call.override, c).enabled
              /\ "severity_override" \notin DOMAIN OverrideChecker(merge_call.override, c)
                    => config.checkers[c].severity_override
                          = merge_call.base.checkers[c].severity_override
              /\ \A r \in DOMAIN merge_call.base.checkers[c].rules :
                    /\ r \in DOMAIN config.checkers[c].rules
                    /\ "severity" \notin DOMAIN OverrideRule(merge_call.override, c, r)
                          => config.checkers[c].rules[r].severity
                                = merge_call.base.checkers[c].rules[r].severity
                    /\ "file_types" \notin DOMAIN OverrideRule(merge_call.override, c, r)
                          => config.checkers[c].rules[r].file_types
                                = merge_call.base.checkers[c].rules[r].file_types

\* the file given to ConfigManager and the configuration it holds by itself
ChildRaw == cfs[ChildPath].raw
ChildConfig == ConvertToSchema(ChildRaw)
\* the configuration a parent file holds by itself
ParentConfig(path) == ConvertToSchema(cfs[path].raw)

\* the child extends the files of parents, each of which is a file that
\* loads and extends nothing
Extends(parents) ==
    /\ cfs[ChildPath].st = "ok"
    /\ "extends" \in DOMAIN ChildRaw
    /\ ChildRaw.extends = parents
    /\ \A q \in Range(parents) :
          cfs[q].st = "ok" /\ "extends" \notin DOMAIN cfs[q].raw

ScalarFields == {"severity_threshold", "fail_on_severity", "max_issues_per_run"}

\* in merged, every scalar field has the child's value if the child sets
\* it and the parent's value if not
ScalarsFollowChild(merged, parent) ==
    /\ \A f \in ScalarFields :
          merged[f] = IF f \in DOMAIN ChildRaw THEN ChildConfig[f] ELSE parent[f]
    /\ \A c \in DOMAIN parent.checkers :
          /\ c \in DOMAIN merged.checkers
          /\ merged.checkers[c].enabled
                = IF "enabled" \in DOMAIN OverrideChecker(ChildRaw, c)
                  THEN ChildConfig.checkers[c].enabled
                  ELSE parent.checkers[c].enabled
          /\ \A r \in DOMAIN parent.checkers[c].rules :
                /\ r \in DOMAIN merged.checkers[c].rules
                /\ merged.checkers[c].rules[r].severity
                      = IF "severity" \in DOMAIN OverrideRule(ChildRaw, c, r)
                        THEN ChildConfig.checkers[c].rules[r].severity
                        ELSE parent.checkers[c].rules[r].severity

\* the configuration load_config built from the file of the child
LoadedFromFile == lpc \in {"ready", "raised"} /\ loaded.from = "file"
\* the configuration resolve_extends returned
Resolved == resolved.called /\ ~resolved.raised

\* C15: in an extends merge each scalar field (severity_threshold,
\* fail_on_severity, max_issues_per_run, a checker's enabled flag, a rule's
\* severity) has the child's value if the child sets the field and the
\* parent's value if the child leaves it unset, in the configuration that
\* load_config builds and in the one that resolve_extends builds.
C15_ScalarsChildElseParent ==
    Extends(<<"p1">>) =>
        /\ LoadedFromFile => ScalarsFollowChild(loaded.config, ParentConfig("p1"))
        /\ Resolved => ScalarsFollowChild(resolved.config, ParentConfig("p1"))

NoDuplicates(list) ==
    \A j, k \in 1..Len(list) : list[j] = list[k] => j = k

\* merged is the union of the two lists, each item once
IsUnion(merged, parent_list, child_list) ==
    /\ Range(merged) = Range(parent_list) \cup Range(child_list)
    /\ NoDuplicates(merged)

PatternsUnited(merged, parent) ==
    /\ IsUnion(merged.ignore_patterns, parent.ignore_patterns,
               ChildConfig.ignore_patterns)
    /\ IsUnion(merged.include_patterns, parent.include_patterns,
               ChildConfig.include_patterns)

\* C16: after a child is merged over a parent, the ignore-pattern list and
\* the include-pattern list each hold every pattern of the parent and every
\* pattern of the child, each distinct pattern once.
C16_PatternListsUnited ==
    Extends(<<"p1">>) =>
        /\ LoadedFromFile => PatternsUnited(loaded.config, ParentConfig("p1"))
        /\ Resolved => PatternsUnited(resolved.config, ParentConfig("p1"))

\* the severity the file of a parent gives to the rule security.secrets,
\* NoSeverity if it gives none
RawSecretsSeverity(raw) ==
    IF "severity" \in DOMAIN OverrideRule(raw, "security", "secrets")
    THEN ParseSeverity(OverrideRule(raw, "security", "secrets").severity)
    ELSE NoSeverity

\* with parents P1, P2 in this order: a key the child sets has the child's
\* value; a key P1 and P2 set differently and the child does not set has
\* P2's value
LaterParentWins(merged) ==
    /\ \A f \in ScalarFields :
          /\ f \in DOMAIN ChildRaw => merged[f] = ChildConfig[f]
          /\ (/\ f \notin DOMAIN ChildRaw
              /\ f \in DOMAIN cfs["p1"].raw
              /\ f \in DOMAIN cfs["p2"].raw
              /\ ParentConfig("p1")[f] # ParentConfig("p2")[f])
                => merged[f] = ParentConfig("p2")[f]
    /\ RawSecretsSeverity(ChildRaw) # NoSeverity
          => merged.checkers["security"].rules["secrets"].severity
                = RawSecretsSeverity(ChildRaw)
    /\ (/\ RawSecretsSeverity(ChildRaw) = NoSeverity
        /\ RawSecretsSeverity(cfs["p1"].raw) # NoSeverity
        /\ RawSecretsSeverity(cfs["p2"].raw) # NoSeverity
        /\ RawSecretsSeverity(cfs["p1"].raw) # RawSecretsSeverity(cfs["p2"].raw))
          => /\ "security" \in DOMAIN merged.checkers
             /\ "secrets" \in DOMAIN merged.checkers["security"].rules
             /\ merged.checkers["security"].rules["secrets"].severity
                   = RawSecretsSeverity(cfs["p2"].raw)

\* C17: a configuration that extends [P1, P2] is P1, then P2 merged over
\* it, then the child merged last: a key P1 and P2 set to different values
\* and the child does not set has P2's value, and a key the child sets has
\* the child's value.
C17_ParentsInOrderChildLast ==
    Extends(<<"p1", "p2">>) =>
        /\ LoadedFromFile => LaterParentWins(loaded.config)
        /\ Resolved => LaterParentWins(resolved.config)

\* a severity of the file that names no level
BadSeverity(raw) ==
    \/ \E f \in {"severity_threshold", "fail_on_severity"} :
          f \in DOMAIN raw /\ raw[f] \notin SeverityNames
    \/ /\ "checkers" \in DOMAIN raw
       /\ \E c \in DOMAIN raw.checkers :
             \/ /\ "severity_override" \in DOMAIN raw.checkers[c]
                /\ raw.checkers[c].severity_override \notin SeverityNames
             \/ /\ "rules" \in DOMAIN raw.checkers[c]
                /\ \E r \in DOMAIN raw.checkers[c].rules :
                      /\ "severity" \in DOMAIN raw.checkers[c].rules[r]
                      /\ raw.checkers[c].rules[r].severity \notin SeverityNames

\* the file names a checker that is not registered, or a rule its checker
\* does not have
UnknownReference(raw) ==
    /\ "checkers" \in DOMAIN raw
    /\ \E c \in DOMAIN raw.checkers :
          \/ ~\E g \in Range(registry) : g.name = c
          \/ /\ "rules" \in DOMAIN raw.checkers[c]
             /\ \E g \in Range(registry) :
                   /\ g.name = c
                   /\ DOMAIN raw.checkers[c].rules \ Range(g.rules) # {}

\* the child extends a file that extends the child
CircularExtends ==
    /\ cfs[ChildPath].st = "ok"
    /\ "extends" \in DOMAIN ChildRaw
    /\ \E q \in Range(ChildRaw.extends) :
          /\ cfs[q].st = "ok"
          /\ "extends" \in DOMAIN cfs[q].raw
          /\ ChildPath \in Range(cfs[q].raw.extends)

SeverityMessages ==
    {"Invalid severity_threshold", "Invalid fail_on_severity",
     "Invalid severity override for checker", "Invalid severity for rule"}

\* C18: an invalid severity string, a reference to an unknown checker or
\* rule, and a circular extends chain each produce at least one message in
\* the list that validation returns to the caller.
C18_ErrorsGiveMessages ==
    (messages.called /\ cfs[ChildPath].st = "ok" /\ DOMAIN env = {} /\ updates = 0) =>
        /\ BadSeverity(ChildRaw)
              => \E m \in messages.list : m.message \in SeverityMessages
        /\ UnknownReference(ChildRaw)
              => \E m \in messages.list : m.message \in {"Unknown checker", "Unknown rule"}
        /\ CircularExtends
              => \E m \in messages.list :
                    m.message \notin SeverityMessages \cup {"Unknown checker", "Unknown rule",
                                                            "Invalid ignore pattern",
                                                            "Invalid include pattern"}

NameEvents ==
    {[kind |-> k, name |-> n, scope |-> sc] :
        k \in {"assign", "load"}, n \in {"x", "_y"}, sc \in ScopeNames}
    \cup {[kind |-> "param", name |-> n, scope |-> "function:f"] : n \in {"x", "_y"}}
    \cup {[kind |-> "pass", name |-> "", scope |-> "module"]}

InitVariables ==
    /\ NoProgram
    /\ arg \in SeqsUpTo(NameEvents, MaxEvents)
    /\ ret = <<>>
    /\ fpc = "ready"
SpecVariables == InitVariables /\ [][CheckVariables]_vars

\* the names a file defines in a scope and never reads in that scope, the
\* names that begin with an underscore or are on the allow-list apart
NeverRead ==
    {arg[k].name : k \in {j \in 1..Len(arg) :
        /\ arg[j].kind \in {"param", "assign"}
        /\ ~IsIntentionallyUnused(arg[j].name)
        /\ ~\E u \in 1..Len(arg) : /\ arg[u].kind = "load"
                                   /\ arg[u].name = arg[j].name
                                   /\ arg[u].scope = arg[j].scope}}

\* the lines given to both parsers: a file header with its two path lines,
\* a hunk header for one old and two new lines, and body lines.  In a hunk
\* body '+++ b/a.py' is the added line '++ b/a.py'.
CompareTokens ==
    {DiffGit("a.py"), OldPath("a.py"), NewPath("a.py"),
     Hdr(1, NoCount, 1, MaxCount), Space, Plus}

InitCompare ==
    /\ \E input \in SeqsUpTo(CompareTokens, MaxDiffLen) : ParserInit(input)
    /\ NoReview
    /\ NoEngine
    /\ NoLoader
    /\ NoExtra
SpecCompare == InitCompare /\ [][ParseNext]_vars

RECURSIVE ValidHunks(_, _, _)
\* ls continues a file section as git writes it: o old and n new lines of
\* the hunk are still to come; after the last of them a hunk header, a file
\* header or the end of the text follows
ValidHunks(ls, o, n) ==
    IF o > 0 \/ n > 0
    THEN /\ ls # <<>>
         /\ CASE Head(ls).k = "empty" -> FALSE
              [] FirstChar(Head(ls)) = "+" -> n > 0 /\ ValidHunks(Tail(ls), o, n - 1)
              [] FirstChar(Head(ls)) = "-" -> o > 0 /\ ValidHunks(Tail(ls), o - 1, n)
              [] FirstChar(Head(ls)) = " " ->
                    o > 0 /\ n > 0 /\ ValidHunks(Tail(ls), o - 1, n - 1)
              [] OTHER -> FALSE
    ELSE \/ ls = <<>>
         \/ /\ ls # <<>>
            /\ Head(ls).k = "hdr"
            /\ Head(ls).digits <= IntMaxStrDigits
            /\ ValidHunks(Tail(ls), CountOf(Head(ls).oc), CountOf(Head(ls).nc))
         \/ /\ Len(ls) >= 4
            /\ ls[1].k = "diffgit"
            /\ ls[2].k = "oldpath" /\ ls[2].path = ls[1].path
            /\ ls[3].k = "newpath" /\ ls[3].path = ls[1].path
            /\ ls[4].k = "hdr"
            /\ ValidHunks(SubSeq(ls, 4, Len(ls)), 0, 0)

\* a valid unified diff: file sections, each with its header, its two path
\* lines and hunks whose bodies have the lines their headers count
ValidUnifiedDiff(ls) ==
    /\ ls # <<>>
    /\ ls[1].k = "diffgit"
    /\ ValidHunks(ls, 0, 0)

\* what the two parsers are compared on
PathsAndCounts(file_list) ==
    [j \in 1..Len(file_list) |->
        [old_path |-> file_list[j].old_path, new_path |-> file_list[j].new_path,
         added_lines |-> file_list[j].added_lines,
         removed_lines |-> file_list[j].removed_lines]]

\* an issue as the checkers report it
Issue(t, sev, l) == [type |-> t, severity |-> sev, line |-> l]

\* what the six checkers find in a file
Found ==
    {[c \in Range(CheckerNames) |-> <<>>],
     [c \in Range(CheckerNames) |->
        CASE c = "complexity" -> <<Issue("long_function", INFO, 2)>>
          [] c = "security" -> <<Issue("hardcoded_secret", ERROR, 1)>>
          [] OTHER -> <<>>],
     [c \in Range(CheckerNames) |->
        CASE c = "style" -> <<Issue("line_too_long", INFO, 1),
                              Issue("trailing_whitespace", INFO, 2)>>
          [] c = "naming" -> <<Issue("naming_convention", WARNING, 2)>>
          [] OTHER -> <<>>]}

\* the files: what is found in them and the checkers that raise on them
AnalyzedFiles ==
    {[found |-> f, raises |-> r] :
        f \in Found,
        r \in {{}, Range(CheckerNames)} \cup {{c} : c \in Range(CheckerNames)}}

InitAnalyze ==
    /\ NoProgram
    /\ arg \in SeqsUpTo(AnalyzedFiles, MaxFiles)
    /\ ret = <<>>
    /\ fpc = "analyze"
SpecAnalyze == InitAnalyze /\ [][AnalyzeNext]_vars

\* sorted(rule ids).index(rule id), for the rule ids of the model
RuleIdRank(t) ==
    CASE t = "hardcoded_secret" -> 1
      [] t = "line_too_long" -> 2
      [] t = "long_function" -> 3
      [] t = "naming_convention" -> 4
      [] t = "trailing_whitespace" -> 5

\* a comes no later than b by line number, then severity, then rule id
InOrder(a, b) ==
    \/ a.line < b.line
    \/ /\ a.line = b.line
       /\ \/ SeverityOrder(a.severity) < SeverityOrder(b.severity)
          \/ /\ a.severity = b.severity
             /\ RuleIdRank(a.type) <= RuleIdRank(b.type)


\* C21: an operation of the ConfigManager that changes the configuration
\* installs a new tree: the tree a caller got from get_config(), or that a
\* rule engine obtained earlier holds, is as it was when the caller got it.
C21_HeldTreeUnchanged == held.taken => held.tree = held.at

\* C26: after disable_rule(checker, rule) has returned, the rule is enabled
\* for no file, also when the configuration had no entry for the rule.
C26_DisabledRuleDoesNotFire ==
    (last_op.op = "disable_rule" /\ ~last_op.raised) =>
        \A path \in EnginePaths :
            ~IsRuleEnabled(config, last_op.checker_name, last_op.rule_name, path)

\* C27: for a valid configuration c, _convert_to_schema(_schema_to_dict(c))
\* completes without error and equals c field for field, and so does the
\* merge of an empty override into c.
C27_DictRoundTrip ==
    fpc \in {"converted", "merged"} => (~ret.raised /\ ret.config = arg)

\* the rules of the registry that are enabled for the file of the call
ApplicableRules ==
    {k \in RuleKeys : /\ IsCheckerEnabled(config, k[1])
                      /\ IsRuleEnabled(config, k[1], k[2], efile)}

\* the rules executed in the call
ExecutedRules == {<<e.checker_name, e.rule_name>> : e \in Range(executed)}

\* the findings of the applicable rules at or above the threshold
FindingsAboveThreshold ==
    {r \in UNION {Range(WithEffectiveSeverity(config, ExecuteRule(k[1], k[2], efile))) :
                    k \in ApplicableRules} :
        SeverityOrder(r.severity) >= SeverityOrder(config.severity_threshold)}

\* C28: findings dropped by the severity threshold do not consume the
\* max_issues_per_run budget: when a call returns fewer findings than
\* max_issues_per_run, every enabled, applicable rule was executed and no
\* finding at or above the threshold is missing from the list.
C28_DroppedFindingsCostNothing ==
    (/\ epc = "returned"
     /\ ~ShouldIgnoreFile(config, efile)
     /\ Len(result) < config.max_issues_per_run)
        => /\ ApplicableRules \subseteq ExecutedRules
           /\ FindingsAboveThreshold \subseteq Range(result)

\* C30: resolving extends terminates for every finite set of configuration
\* files: resolve_extends returns, having loaded each file a bounded number
\* of times, also when the extends references form a cycle.
C30_ResolveExtendsReturns ==
    resolved.called => resolved.error # "RecursionError"

\* C24: for every Python function definition of a file, same-named methods
\* of different classes included, and for each of the five metrics, there is
\* exactly one finding for the function if the metric exceeds its threshold
\* and none otherwise.
C24_OneFindingPerExceededMetric ==
    fpc = "checked" =>
        \A k \in 1..Len(arg), m \in Range(MetricNames) :
            Cardinality({j \in 1..Len(ret) : /\ ret[j].type = IssueType(m)
                                             /\ ret[j].line = arg[k].line_start})
                = IF arg[k][m] > Threshold(m) THEN 1 ELSE 0

\* C25: the unused-variable findings for a Python file are exactly the
\* names that are defined in a scope and never read in that scope, except
\* the names that begin with an underscore or are on the allow-list.
C25_UnusedVariablesExact ==
    fpc = "checked" => {f.name : f \in ret.issues} = NeverRead

\* C29: for every valid unified diff, GitAnalyzer._parse_diff and
\* GitDiffParser.parse_diff give the same sequence of files, with the same
\* old and new paths and the same counts of added and removed lines.
C29_ParsersAgree ==
    (pc = "done" /\ ValidUnifiedDiff(lines)) =>
        PathsAndCounts(files) = PathsAndCounts(AnalyzerParseDiff(lines))

\* C22: when a checker raises while a file is analysed, the failure is
\* confined to it: all six checkers are run on the file, the result holds
\* every finding of the checkers that did not raise, and the files after it
\* are analysed.
C22_CheckerFailureConfined ==
    /\ \A k \in 1..Len(ret) :
          /\ ret[k].ran = CheckerNames
          /\ \A c \in Range(CheckerNames) \ arg[k].raises :
                Range(arg[k].found[c]) \subseteq Range(ret[k].issues)
    /\ fpc = "analyzed" => Len(ret) = Len(arg)

\* a checker has raised on a file where another checker found something, the
\* finding is in the result, and the file after it has been analysed
C22_Witness ==
    /\ fpc = "analyzed"
    /\ \E k \in 1..(Len(ret) - 1) :
          /\ arg[k].raises # {}
          /\ \E c \in Range(CheckerNames) \ arg[k].raises : arg[k].found[c] # <<>>
          /\ ret[k].issues # <<>>

\* C23: the findings returned for one file are ordered by line number, then
\* by severity, then by rule id, whatever the order in which the checkers
\* produced them.
C23_FindingsSorted ==
    \A k \in 1..Len(ret) :
        \A a, b \in 1..Len(ret[k].issues) :
            a < b => InOrder(ret[k].issues[a], ret[k].issues[b])

====
